------------------------- MODULE BatteryUnitProofs -------------------------
(***************************************************************************)
(* Theorems about BatteryUnit and BatteryRestore, for every capacity,      *)
(* rating, jitter resolution, tick delay, set of client requests and       *)
(* content of the state file.  The invariant bounds the stored energy only *)
(* from below, since a state file may hold more than the capacity: so it   *)
(* serves a unit that is restored and one that is not.                     *)
(***************************************************************************)
EXTENDS BatteryRestore, TLAPS

-----------------------------------------------------------------------------
(***************************************************************************)
(* The operators of the control law.                                       *)
(***************************************************************************)

\* The magnitude of a power factor, as a place of the table.
LEMMA FactorRange ==
    ASSUME NEW pf \in Int PROVE Clamp(Abs(pf), 50, 1000) \in 50..1000
<1> DEFINE a == Abs(pf)
<1>1. a \in Int
  BY DEF Abs
<1> HIDE DEF a
<1>2. Clamp(a, 50, 1000) \in 50..1000
  BY <1>1 DEF Clamp
<1> QED BY <1>2 DEF a

\* The jitter keeps the sign of a command and adds one unit per step at most.
LEMMA TrackedBounds ==
    ASSUME NEW c \in Int, NEW x \in Tracked(c)
    PROVE  /\ x \in Int
           /\ c > 0 => x > 0
           /\ c < 0 => x < 0
           /\ c = 0 => x = 0
<1>1. PICK j \in {-1, 0, 1} : x = c * (Fine + j)
  BY DEF Tracked
<1>2. Fine \in Int /\ Fine >= 2
  BY UnitAssumption
<1>3. Fine + j \in Int /\ Fine + j >= 1
  BY <1>2
<1>4. ASSUME NEW m \in Int, m >= 1 PROVE
        /\ c * m \in Int
        /\ c > 0 => c * m > 0
        /\ c < 0 => c * m < 0
        /\ c = 0 => c * m = 0
  BY <1>4
<1> QED
  BY <1>1, <1>3, <1>4

\* What limitReactiveByApparent returns fits into the apparent capacity that
\* the active power leaves, or is zero.
LEMMA LimitedFits ==
    ASSUME NEW t \in Int, NEW x \in Int, NEW y \in Limited(t, x)
    PROVE  /\ y \in Int
           /\ y # 0 => x * x + y * y <= RatedUnits * RatedUnits
<1>1. RatedUnits \in Int /\ x * x \in Int /\ RatedUnits * RatedUnits \in Int
  BY UnitAssumption DEF RatedUnits
<1> DEFINE headroom == RatedUnits * RatedUnits - x * x
<1>2. CASE headroom <= 0
  BY <1>1, <1>2 DEF Limited
<1>3. CASE headroom > 0 /\ t * t <= headroom
  <2>1. y = t
    BY <1>1, <1>3 DEF Limited
  <2>2. t * t \in Int
    OBVIOUS
  <2> QED BY <2>1, <2>2, <1>1, <1>3
<1>4. CASE headroom > 0 /\ ~(t * t <= headroom)
  <2>1. PICK r \in 0..RatedUnits : r * r <= headroom /\ (y = r \/ y = -r)
    BY <1>1, <1>4 DEF Limited
  <2>2. r \in Int /\ r * r \in Int /\ (-r) * (-r) = r * r
    BY <1>1
  <2> QED BY <2>1, <2>2, <1>1
<1> QED BY <1>1, <1>2, <1>3, <1>4

\* The power factor that a setting means, and its tangent in the table.
Factor(pf) == Clamp(Abs(pf), 50, 1000)

LEMMA TangentType == ASSUME NEW pf \in Int PROVE TanAcos[Factor(pf)] \in Int
<1> DEFINE F == 50..1000
<1>1. Factor(pf) \in F
  BY FactorRange DEF Factor
<1>2. TanAcos \in [F -> Nat]
  BY GridAssumption
<1> HIDE DEF F
<1>3. TanAcos[Factor(pf)] \in Nat
  BY <1>1, <1>2, Zenon
<1> QED BY <1>3

\* Every reactive control law yields an integer target.
LEMMA TargetsType ==
    ASSUME ctl \in [Controls -> Int], NEW x \in Int, NEW v \in Int
    PROVE  ReactiveTargets(x, v) \subseteq Int
<1> USE DEF Controls, Settings
<1>1. FromPowerFactor(x) \in Int
  <2> DEFINE pf == IF ctl["powerFactorCmd"] = 0 THEN 1000 ELSE ctl["powerFactorCmd"]
  <2>1. pf \in Int
    OBVIOUS
  <2>2. Abs(x) \in Int
    BY DEF Abs
  <2>3. Abs(x) * TanAcos[Factor(pf)] \in Int
    <3> HIDE DEF pf
    <3>1. TanAcos[Factor(pf)] \in Int
      BY <2>1, TangentType
    <3> QED BY <2>2, <3>1
  <2> QED BY <2>3 DEF FromPowerFactor, Factor
<1>2. FromVoltageDroop(v) \in Int
  <2> DEFINE grid == IF ctl["gridVoltageCmd"] # 0 THEN ctl["gridVoltageCmd"] ELSE v
             dev  == grid - Nominal
             num  == (Clamp(Abs(dev), Deadband, FullResponse) - Deadband) * RatedUnits
  <2>1. dev \in Int
    <3>1. grid \in Int
      OBVIOUS
    <3> HIDE DEF grid
    <3> QED BY <3>1, GridAssumption
  <2>2. Clamp(Abs(dev), Deadband, FullResponse) \in Int
    <3> HIDE DEF dev
    <3> QED BY <2>1, GridAssumption DEF Abs, Clamp
  <2>3. num \in Int
    BY <2>2, GridAssumption, UnitAssumption DEF RatedUnits
  <2>4. FullResponse - Deadband \in Int /\ FullResponse - Deadband > 0
    BY GridAssumption
  <2>5. num \div (FullResponse - Deadband) \in Int
    <3> HIDE DEF num
    <3> QED BY <2>3, <2>4
  <2> QED BY <2>5 DEF FromVoltageDroop
<1>3. Tracked(ctl["reactiveCmd"]) \subseteq Int
  BY TrackedBounds
<1> QED BY <1>1, <1>2, <1>3 DEF ReactiveTargets

\* What a tick may leave as output: a tracked command with a limited reactive
\* part, the present output in local mode, or nothing.
LEMMA OutputCases ==
    ASSUME NEW run, NEW rem, NEW closed, NEW v,
           NEW out \in Outputs(run, rem, closed, v)
    PROVE  \/ /\ run /\ rem /\ closed
              /\ out[1] \in Tracked(Clamp(SelectedCommand, -Rated, Rated))
              /\ \E t \in ReactiveTargets(out[1], v) : out[2] \in Limited(t, out[1])
           \/ ~rem /\ out[1] = PowerAfter(p) /\ out[2] = PowerAfter(q)
           \/ rem /\ out[1] = 0 /\ out[2] = 0
<1>1. CASE run /\ rem /\ closed
  <2>1. PICK x \in Tracked(Clamp(SelectedCommand, -Rated, Rated)) :
          out \in UNION {{<<x, y>> : y \in Limited(t, x)} : t \in ReactiveTargets(x, v)}
    BY <1>1 DEF Outputs
  <2>2. PICK t \in ReactiveTargets(x, v) : out \in {<<x, y>> : y \in Limited(t, x)}
    BY <2>1
  <2>3. PICK y \in Limited(t, x) : out = <<x, y>>
    BY <2>2
  <2>4. out[1] = x /\ out[2] = y
    BY <2>3
  <2> QED BY <1>1, <2>1, <2>2, <2>3, <2>4
<1>2. CASE ~(run /\ rem /\ closed) /\ ~rem
  BY <1>2 DEF Outputs
<1>3. CASE ~(run /\ rem /\ closed) /\ rem
  BY <1>3 DEF Outputs
<1> QED BY <1>1, <1>2, <1>3

-----------------------------------------------------------------------------
(***************************************************************************)
(* Type correctness.                                                       *)
(***************************************************************************)

\* The types of the variables, whatever the store may hold.
UnitTypes ==
    /\ ctl \in [Controls -> Int]
    /\ tel \in [Telemetry -> Int]
    /\ running \in BOOLEAN /\ hv \in BOOLEAN /\ remote \in BOOLEAN
    /\ gridTied \in BOOLEAN /\ fault \in BOOLEAN
    /\ p \in Int /\ q \in Int /\ volt \in Int /\ energy \in Nat
    /\ charged \in Nat /\ discharged \in Nat
    /\ lastCmd \in Int /\ lastAlias \in Int

LEMMA TypeParts == TypeOK <=> UnitTypes /\ energy <= Cap
<1>1. energy \in 0..Cap <=> energy \in Nat /\ energy <= Cap
  BY UnitAssumption
<1> QED BY <1>1 DEF TypeOK, UnitTypes

\* A register overlay keeps the type of the registers.
LEMMA OverlayType ==
    ASSUME NEW w \in Requests, NEW D, NEW f \in [D -> Int]
    PROVE  Overlay(f, w) \in [D -> Int]
BY RequestAssumption DEF Overlay

\* A write puts integers into the registers and touches nothing else.
LEMMA WriteType == ASSUME UnitTypes, NEW w \in Requests, Write(w) PROVE UnitTypes'
<1>1. tel' \in [Telemetry -> Int]
  BY OverlayType DEF Write, UnitTypes
<1>2. Overlay(ctl, w) \in [Controls -> Int]
  BY OverlayType DEF UnitTypes
<1>3. CASE PowerWrite(w) = {} /\ ctl' = Overlay(ctl, w) /\ UNCHANGED <<lastCmd, lastAlias>>
  BY <1>1, <1>2, <1>3 DEF Write, UnitTypes
<1>4. ASSUME NEW v \in PowerWrite(w), ctl' = Mirrored(w, v), lastCmd' = v, lastAlias' = v
      PROVE UnitTypes'
  <2>1. v \in Int
    BY <1>4, RequestAssumption DEF PowerWrite
  <2>2. Mirrored(w, v) \in [Controls -> Int]
    BY <2>1, <1>2 DEF Mirrored
  <2> QED BY <1>1, <1>4, <2>1, <2>2 DEF Write, UnitTypes
<1> QED BY <1>3, <1>4 DEF Write

\* The parts of a tick, named for the proofs below: the delay, the bus
\* voltage and the output that were chosen.
TickWith(dt, v, out) ==
    /\ hv' = HVAfter
    /\ remote' = (ctl["remoteLocal"] = 1)
    /\ gridTied' = (ctl["gridMode"] = 0)
    /\ running' = RunningAfter
    /\ volt' = v
    /\ lastCmd' = SelectedCommand
    /\ lastAlias' = SelectedCommand
    /\ ctl' = Consumed(SelectedCommand)
    /\ out \in Outputs(running', remote', hv', v)
    /\ UpdateEnergy(out[1], dt)
    /\ q' = out[2]
    /\ fault' = (FaultAfter \/ BusLost(running', hv'))
    /\ tel' = Synced(running', hv', remote', gridTied', fault', p', q', energy')

\* Every tick has such parts.
LEMMA TickParts ==
    ASSUME Tick
    PROVE  \E dt \in Delays :
             \E v \in Relaxed(volt, BusTarget(PowerAfter(p), PowerAfter(q)), dt) :
               \E out : TickWith(dt, v, out)
BY DEF Tick, TickWith

\* The bus voltage is an integer.
LEMMA RelaxedType ==
    ASSUME UnitTypes, NEW dt \in Delays,
           NEW v \in Relaxed(volt, BusTarget(PowerAfter(p), PowerAfter(q)), dt)
    PROVE  v \in Int
<1> DEFINE num == PowerAfter(p) * Resistance + PowerAfter(q) * Reactance
<1>1. PowerAfter(p) \in Int /\ PowerAfter(q) \in Int
  BY DEF UnitTypes, PowerAfter
<1>2. PowerAfter(p) * Resistance \in Int /\ PowerAfter(q) * Reactance \in Int
  BY <1>1, GridAssumption
<1>3. num \in Int
  BY <1>2
<1>4. num \div Base \in Int
  <2> HIDE DEF num
  <2> QED BY <1>3, GridAssumption
<1>5. BusTarget(PowerAfter(p), PowerAfter(q)) \in Int
  <2> DEFINE d == num \div Base
  <2>1. BusTarget(PowerAfter(p), PowerAfter(q)) = Nominal + Clamp(d, -VoltageSpan, VoltageSpan)
    BY DEF BusTarget
  <2>2. d \in Int
    BY <1>4
  <2> HIDE DEF d
  <2> QED BY <2>1, <2>2, GridAssumption DEF Clamp
<1> HIDE DEF num
<1> QED BY <1>5 DEF Relaxed, UnitTypes

\* A selected output is a pair of integers.
LEMMA OutputType ==
    ASSUME UnitTypes, NEW run, NEW rem, NEW closed, NEW v \in Int,
           NEW out \in Outputs(run, rem, closed, v)
    PROVE  out[1] \in Int /\ out[2] \in Int
<1>1. SelectedCommand \in Int
  BY DEF SelectedCommand, UnitTypes, Controls, Settings
<1>2. Clamp(SelectedCommand, -Rated, Rated) \in Int
  BY <1>1, UnitAssumption DEF Clamp
<1>3. CASE /\ out[1] \in Tracked(Clamp(SelectedCommand, -Rated, Rated))
           /\ \E t \in ReactiveTargets(out[1], v) : out[2] \in Limited(t, out[1])
  <2>1. out[1] \in Int
    BY <1>2, <1>3, TrackedBounds
  <2>2. PICK t \in ReactiveTargets(out[1], v) : out[2] \in Limited(t, out[1])
    BY <1>3
  <2>3. t \in Int
    BY <2>1, <2>2, TargetsType DEF UnitTypes
  <2> QED BY <2>1, <2>2, <2>3, LimitedFits
<1>4. PowerAfter(p) \in Int /\ PowerAfter(q) \in Int
  BY DEF UnitTypes, PowerAfter
<1> QED BY <1>3, <1>4, OutputCases

\* What one energy step leaves, for an integer output.
LEMMA EnergyStep ==
    ASSUME UnitTypes, NEW x \in Int, NEW dt \in Delays, UpdateEnergy(x, dt)
    PROVE  /\ energy' \in Nat
           /\ energy' <= Cap \/ (energy' = energy /\ Blocked(x) /\ p' = 0)
           /\ p' \in {0, x}
           /\ charged' \in Nat /\ charged' >= charged
           /\ discharged' \in Nat /\ discharged' >= discharged
           /\ energy >= Cap => charged' = charged /\ p' >= 0
<1> DEFINE flow == x * dt
           raw  == Drained(x, dt)
<1>1. flow \in Int /\ (x > 0 => flow >= 0)
  BY UnitAssumption
<1>2. raw = IF Blocked(x) THEN energy ELSE energy - flow
  BY DEF Drained
<1>3. /\ energy' = IF Blocked(x) THEN energy ELSE Clamp(raw, 0, Cap)
      /\ charged' = IF raw > energy THEN charged + (raw - energy) ELSE charged
      /\ discharged' = IF raw < energy THEN discharged + (energy - raw) ELSE discharged
      /\ p' = IF Blocked(x) \/ raw < 0 \/ raw > Cap THEN 0 ELSE x
  BY DEF UpdateEnergy, ChargeBooked
<1>4. Cap \in Nat
  BY UnitAssumption
<1> HIDE DEF flow, raw
<1>5. raw \in Int /\ energy \in Nat /\ charged \in Nat /\ discharged \in Nat
  BY <1>1, <1>2 DEF UnitTypes
<1>6. Clamp(raw, 0, Cap) \in 0..Cap
  BY <1>4, <1>5 DEF Clamp
<1>7. CASE Blocked(x)
  BY <1>2, <1>3, <1>5, <1>7
<1>8. CASE ~Blocked(x)
  <2>1. energy >= Cap => x > 0
    BY <1>4, <1>5, <1>8 DEF Blocked
  <2>2. energy >= Cap => raw <= energy
    BY <1>1, <1>2, <1>5, <1>8, <2>1
  <2> QED BY <1>3, <1>4, <1>5, <1>6, <1>8, <2>1, <2>2
<1> QED BY <1>7, <1>8

\* A tick keeps the types: each stage of it yields numbers and flags.
LEMMA TickType ==
    ASSUME UnitTypes, Tick PROVE UnitTypes' /\ (energy <= Cap => energy' <= Cap)
<1>0. PICK dt \in Delays :
        \E v \in Relaxed(volt, BusTarget(PowerAfter(p), PowerAfter(q)), dt) :
          \E out : TickWith(dt, v, out)
  BY TickParts
<1>1. PICK v \in Relaxed(volt, BusTarget(PowerAfter(p), PowerAfter(q)), dt) :
        \E out : TickWith(dt, v, out)
  BY <1>0
<1>2. PICK out : TickWith(dt, v, out)
  BY <1>1
<1>3. v \in Int
  BY <1>1, RelaxedType
<1>4. out[1] \in Int /\ out[2] \in Int
  BY <1>2, <1>3, OutputType DEF TickWith
<1>5. /\ energy' \in Nat /\ p' \in Int /\ charged' \in Nat /\ discharged' \in Nat
      /\ energy <= Cap => energy' <= Cap
  BY <1>2, <1>4, EnergyStep DEF TickWith
<1>6. SelectedCommand \in Int
  BY DEF SelectedCommand, UnitTypes, Controls, Settings
<1>7. ctl' \in [Controls -> Int]
  BY <1>2, <1>6 DEF TickWith, Consumed, UnitTypes
<1>8. /\ hv' \in BOOLEAN /\ remote' \in BOOLEAN /\ gridTied' \in BOOLEAN
      /\ running' \in BOOLEAN /\ fault' \in BOOLEAN
  BY <1>2 DEF TickWith, HVAfter, RunningAfter, FaultAfter, BusLost, UnitTypes
<1>9. q' \in Int /\ volt' \in Int /\ lastCmd' \in Int /\ lastAlias' \in Int
  BY <1>2, <1>3, <1>4, <1>6 DEF TickWith
<1>10. tel' \in [Telemetry -> Int]
  <2>1. tel' = Synced(running', hv', remote', gridTied', fault', p', q', energy')
    BY <1>2 DEF TickWith
  <2>2. ctl["maxChargeSetting"] \in Int /\ ctl["maxDischargeSetting"] \in Int
    BY DEF UnitTypes, Controls, Settings
  <2>3. \A limit, setting \in Int : SysMax(limit, setting) \in Int
    BY DEF SysMax
  <2> QED BY <2>1, <2>2, <1>5, <1>9, UnitAssumption
          DEF Synced, Telemetry, Flag, SysMax
<1> QED BY <1>5, <1>7, <1>8, <1>9, <1>10 DEF UnitTypes

\* NewBatteryUnit sets every field to a value of its type.
LEMMA InitType == Init => TypeOK
<1> SUFFICES ASSUME Init PROVE TypeOK
  OBVIOUS
<1>1. ctl \in [Controls -> Int]
  BY DEF Init
<1>2. tel \in [Telemetry -> Int]
  BY <1>1, UnitAssumption
     DEF Init, Synced, Telemetry, Flag, SysMax, SystemFault, Controls, Settings
<1>3. InitEnergy \in 0..Cap /\ Nominal \in Int
  BY UnitAssumption, GridAssumption
<1>4. /\ running \in BOOLEAN /\ hv \in BOOLEAN /\ remote \in BOOLEAN
      /\ gridTied \in BOOLEAN /\ fault \in BOOLEAN
  BY Zenon DEF Init
<1>5. /\ p \in Int /\ q \in Int /\ volt \in Int /\ energy \in 0..Cap
      /\ charged \in Nat /\ discharged \in Nat /\ lastCmd \in Int /\ lastAlias \in Int
  BY <1>3 DEF Init
<1> QED BY <1>1, <1>2, <1>4, <1>5 DEF TypeOK

\* The registers, flags, outputs, energy and totals keep their types.
THEOREM TypeCorrect == Spec => []TypeOK
<1>1. Init => TypeOK
  BY InitType
<1>2. TypeOK /\ [Next]_vars => TypeOK'
  <2> SUFFICES ASSUME TypeOK, [Next]_vars PROVE TypeOK'
    OBVIOUS
  <2>0. UnitTypes /\ energy <= Cap
    BY TypeParts
  <2>1. UnitTypes' /\ energy' <= Cap
    <3>1. CASE Tick
      BY <2>0, <3>1, TickType
    <3>2. ASSUME NEW w \in Requests, Write(w) PROVE UnitTypes' /\ energy' <= Cap
      <4>1. energy' = energy
        BY <3>2 DEF Write
      <4> QED BY <2>0, <3>2, <4>1, WriteType
    <3>3. CASE UNCHANGED vars
      BY <2>0, <3>3 DEF vars, UnitTypes
    <3> QED BY <3>1, <3>2, <3>3 DEF Next
  <2>2. energy' \in 0..Cap
    BY <2>1, UnitAssumption DEF UnitTypes
  <2> QED BY <2>1, <2>2 DEF UnitTypes, TypeOK
<1> QED BY <1>1, <1>2, PTL DEF Spec

-----------------------------------------------------------------------------
(***************************************************************************)
(* The safety invariant.  Its parts need one another: a unit that is kept  *)
(* at its present output in local mode is idle when it is off only because *)
(* it was idle before, and the capacity bound in local mode is inherited.  *)
(***************************************************************************)
SafetyInv ==
    /\ UnitTypes
    /\ DeadUnitIsIdle
    /\ DeadBusIsFaulted
    /\ AliasesAgree
    /\ CapacityRespected

\* A product of bounded factors is bounded.
LEMMA TrackedCapacity ==
    ASSUME NEW c \in -Rated..Rated, NEW x \in Tracked(c)
    PROVE  Abs(x) <= MaxPower
<1>1. PICK j \in {-1, 0, 1} : x = c * (Fine + j)
  BY DEF Tracked
<1> DEFINE m == Fine + j
           a == Abs(c)
<1>2. m \in Int /\ m >= 1 /\ m <= Fine + 1 /\ Fine + 1 \in Int
  BY UnitAssumption
<1>3. a \in Int /\ 0 <= a /\ a <= Rated /\ Rated \in Int
  BY UnitAssumption DEF Abs
<1>4. c \in Int
  BY UnitAssumption
<1> HIDE DEF m
<1>5. c * m \in Int /\ Abs(c * m) = a * m
  BY <1>2, <1>4 DEF Abs
<1> HIDE DEF a
<1>6. a * m <= Rated * m
  BY <1>2, <1>3
<1>7. Rated * m <= Rated * (Fine + 1)
  BY <1>2, <1>3
<1>8. a * m \in Int /\ Rated * m \in Int /\ Rated * (Fine + 1) \in Int
  BY <1>2, <1>3
<1>9. Abs(c * m) <= Rated * (Fine + 1)
  BY <1>5, <1>6, <1>7, <1>8
<1> QED BY <1>1, <1>9 DEF m, MaxPower

\* A fresh unit is safe: it runs on a closed contactor and exchanges nothing.
LEMMA InitSafe == Init => SafetyInv
<1> SUFFICES ASSUME Init PROVE SafetyInv
  OBVIOUS
<1>1. UnitTypes
  BY InitType, TypeParts
<1>2. p = 0 /\ q = 0 /\ running = TRUE /\ hv = TRUE /\ energy \in 0..Cap
  BY UnitAssumption DEF Init
<1>3. AliasesAgree
  BY DEF Init, AliasesAgree, Controls, Settings
<1>4. MaxPower \in Int /\ MaxPower >= 0
  BY UnitAssumption DEF MaxPower
<1>5. CapacityRespected
  BY <1>2, <1>4 DEF CapacityRespected, Abs
<1> QED BY <1>1, <1>2, <1>3, <1>5
        DEF SafetyInv, DeadUnitIsIdle, DeadBusIsFaulted

\* A client write keeps the unit safe: OnPCSWrite restores what it disturbs.
LEMMA WriteSafe ==
    ASSUME SafetyInv, NEW w \in Requests, Write(w) PROVE SafetyInv'
<1>1. UnitTypes'
  BY WriteType DEF SafetyInv
<1>2. UNCHANGED <<running, hv, remote, gridTied, fault, p, q, volt,
                  energy, charged, discharged>>
  BY DEF Write
<1>3. DeadUnitIsIdle' /\ DeadBusIsFaulted'
  BY <1>2 DEF SafetyInv, DeadUnitIsIdle, DeadBusIsFaulted
<1>4. CapacityRespected'
  BY <1>2 DEF SafetyInv, CapacityRespected
<1>5. AliasesAgree'
  <2>1. ctl \in [Controls -> Int]
    BY DEF SafetyInv, UnitTypes
  <2>2. CASE PowerWrite(w) = {} /\ ctl' = Overlay(ctl, w) /\ UNCHANGED <<lastCmd, lastAlias>>
    <3>1. "powerCmd" \notin DOMAIN w /\ "powerCmdAlias" \notin DOMAIN w
      BY <2>2 DEF PowerWrite
    <3> QED BY <2>1, <2>2, <3>1
            DEF SafetyInv, AliasesAgree, Overlay, Controls, Settings
  <2>3. ASSUME NEW v, ctl' = Mirrored(w, v), lastCmd' = v, lastAlias' = v
        PROVE  AliasesAgree'
    BY <2>1, <2>3 DEF AliasesAgree, Mirrored, Overlay, Controls, Settings
  <2> QED BY <2>2, <2>3 DEF Write
<1> QED BY <1>1, <1>3, <1>4, <1>5 DEF SafetyInv

\* The output a tick selects fits the capacity, and a unit that is off or has
\* an open contactor gets none.
LEMMA OutputSafe ==
    ASSUME SafetyInv, NEW dt, NEW v \in Int, NEW out, TickWith(dt, v, out)
    PROVE  /\ (~running' \/ ~hv') => out[1] = 0 /\ out[2] = 0
           /\ Abs(out[1]) <= MaxPower
           /\ out[2] # 0 => out[1] * out[1] + out[2] * out[2] <= RatedUnits * RatedUnits
<1> DEFINE c == Clamp(SelectedCommand, -Rated, Rated)
<1>1. UnitTypes /\ p \in Int /\ q \in Int
  BY DEF SafetyInv, UnitTypes
<1>2. SelectedCommand \in Int
  BY <1>1 DEF SelectedCommand, UnitTypes, Controls, Settings
<1>3. c \in -Rated..Rated
  BY <1>2, UnitAssumption DEF Clamp
<1>4. MaxPower \in Int /\ MaxPower >= 0
  BY UnitAssumption DEF MaxPower
<1>5. CASE /\ running' /\ remote' /\ hv' /\ out[1] \in Tracked(c)
           /\ \E t \in ReactiveTargets(out[1], v) : out[2] \in Limited(t, out[1])
  <2>1. Abs(out[1]) <= MaxPower
    BY <1>3, <1>5, TrackedCapacity
  <2>2. out[1] \in Int
    BY <1>3, <1>5, TrackedBounds, UnitAssumption
  <2>3. PICK t \in ReactiveTargets(out[1], v) : out[2] \in Limited(t, out[1])
    BY <1>5
  <2>4. t \in Int
    BY <1>1, <2>2, <2>3, TargetsType DEF UnitTypes
  <2> QED BY <1>5, <2>1, <2>2, <2>3, <2>4, LimitedFits
<1>6. CASE out[1] = PowerAfter(p) /\ out[2] = PowerAfter(q)
  <2>1. CASE Tripped
    BY <1>4, <1>6, <2>1 DEF PowerAfter, Abs
  <2>2. CASE ~Tripped
    <3>1. out[1] = p /\ out[2] = q
      BY <1>6, <2>2 DEF PowerAfter
    <3>2. (~running' \/ ~hv') => (~running \/ ~hv)
      BY <2>2 DEF TickWith, Tripped, RunningAfter, HVAfter
    <3> QED BY <3>1, <3>2 DEF SafetyInv, DeadUnitIsIdle, CapacityRespected
  <2> QED BY <2>1, <2>2
<1>7. CASE out[1] = 0 /\ out[2] = 0
  BY <1>4, <1>7 DEF Abs
<1>8. out \in Outputs(running', remote', hv', v)
  BY DEF TickWith
<1> QED BY <1>5, <1>6, <1>7, <1>8, OutputCases

\* A tick keeps the unit safe, whatever registers and delay it finds.
LEMMA TickSafe == ASSUME SafetyInv, Tick PROVE SafetyInv'
<1>0. PICK dt \in Delays :
        \E v \in Relaxed(volt, BusTarget(PowerAfter(p), PowerAfter(q)), dt) :
          \E out : TickWith(dt, v, out)
  BY TickParts
<1>1. PICK v \in Relaxed(volt, BusTarget(PowerAfter(p), PowerAfter(q)), dt) :
        \E out : TickWith(dt, v, out)
  BY <1>0
<1>2. PICK out : TickWith(dt, v, out)
  BY <1>1
<1>3. UnitTypes /\ UnitTypes'
  BY TickType DEF SafetyInv
<1>4. v \in Int
  BY <1>1, <1>3, RelaxedType
<1>5. out[1] \in Int /\ out[2] \in Int
  BY <1>2, <1>3, <1>4, OutputType DEF TickWith
<1>6. p' \in {0, out[1]} /\ q' = out[2]
  BY <1>2, <1>3, <1>5, EnergyStep DEF TickWith
<1>7. /\ (~running' \/ ~hv') => out[1] = 0 /\ out[2] = 0
      /\ Abs(out[1]) <= MaxPower
      /\ out[2] # 0 => out[1] * out[1] + out[2] * out[2] <= RatedUnits * RatedUnits
  BY <1>2, <1>4, OutputSafe
<1>8. DeadUnitIsIdle'
  BY <1>6, <1>7 DEF DeadUnitIsIdle
<1>9. DeadBusIsFaulted'
  BY <1>2 DEF TickWith, DeadBusIsFaulted, BusLost
<1>10. AliasesAgree'
  BY <1>2 DEF TickWith, AliasesAgree, Consumed, Controls, Settings, Pulses
<1>11. CapacityRespected'
  <2>1. MaxPower \in Int /\ MaxPower >= 0 /\ RatedUnits * RatedUnits \in Int
    BY UnitAssumption DEF MaxPower, RatedUnits
  <2>2. Abs(p') <= MaxPower
    <3>1. Abs(0) = 0
      BY DEF Abs
    <3>2. p' = 0 \/ p' = out[1]
      BY <1>6
    <3>3. CASE p' = 0
      BY <2>1, <3>1, <3>3 DEF Abs
    <3>4. CASE p' = out[1]
      BY <1>7, <3>4
    <3> QED BY <3>2, <3>3, <3>4
  <2>3. out[1] * out[1] \in Int /\ out[1] * out[1] >= 0 /\ out[2] * out[2] \in Int
    BY <1>5
  <2>4. CASE p' = out[1]
    BY <1>6, <1>7, <2>2, <2>4 DEF CapacityRespected
  <2>5. CASE p' = 0
    BY <1>6, <1>7, <2>1, <2>2, <2>3, <2>5 DEF CapacityRespected
  <2> QED BY <1>6, <2>4, <2>5
<1> QED BY <1>3, <1>8, <1>9, <1>10, <1>11 DEF SafetyInv

\* The safety invariant holds in every reachable state.
LEMMA SafetyInvariant == Spec => []SafetyInv
<1>1. Init => SafetyInv
  BY InitSafe
<1>2. SafetyInv /\ [Next]_vars => SafetyInv'
  <2> SUFFICES ASSUME SafetyInv, [Next]_vars PROVE SafetyInv'
    OBVIOUS
  <2>1. CASE Tick
    BY <2>1, TickSafe
  <2>2. ASSUME NEW w \in Requests, Write(w) PROVE SafetyInv'
    BY <2>2, WriteSafe
  <2>3. CASE UNCHANGED vars
    BY <2>3 DEF vars, SafetyInv, UnitTypes, DeadUnitIsIdle, DeadBusIsFaulted,
                AliasesAgree, CapacityRespected
  <2> QED BY <2>1, <2>2, <2>3 DEF Next
<1> QED BY <1>1, <1>2, PTL DEF Spec

\* What restoreState puts back are numbers, and it leaves the rest of the unit alone.
LEMMA RestoreSafe == ASSUME SafetyInv, Restore PROVE SafetyInv'
<1>1. CASE UNCHANGED vars
  BY <1>1 DEF vars, SafetyInv, UnitTypes, DeadUnitIsIdle, DeadBusIsFaulted,
              AliasesAgree, CapacityRespected
<1>2. ASSUME NEW s \in SavedStates, RestoreUnit(s) PROVE SafetyInv'
  <2>1. UnitTypes'
    BY <1>2, SavedAssumption DEF RestoreUnit, SafetyInv, UnitTypes
  <2>2. DeadUnitIsIdle' /\ DeadBusIsFaulted' /\ AliasesAgree' /\ CapacityRespected'
    BY <1>2 DEF RestoreUnit, SafetyInv, DeadUnitIsIdle, DeadBusIsFaulted,
                AliasesAgree, CapacityRespected
  <2> QED BY <2>1, <2>2 DEF SafetyInv
<1> QED BY <1>1, <1>2 DEF Restore

\* The safety invariant holds whatever the state file holds, and whenever it is read.
LEMMA RestoredInvariant == RestoreSpec => []SafetyInv
<1>1. RestoreInit => SafetyInv
  BY InitSafe DEF RestoreInit
<1>2. SafetyInv /\ [RestoreNext]_restoreVars => SafetyInv'
  <2> SUFFICES ASSUME SafetyInv, [RestoreNext]_restoreVars PROVE SafetyInv'
    OBVIOUS
  <2>1. CASE Restore
    BY <2>1, RestoreSafe
  <2>2. CASE RestoredTick
    BY <2>2, TickSafe DEF RestoredTick
  <2>3. ASSUME NEW w \in Requests, ClientWrite(w) PROVE SafetyInv'
    BY <2>3, WriteSafe DEF ClientWrite
  <2>4. CASE UNCHANGED restoreVars
    BY <2>4 DEF restoreVars, vars, SafetyInv, UnitTypes, DeadUnitIsIdle,
                DeadBusIsFaulted, AliasesAgree, CapacityRespected
  <2> QED BY <2>1, <2>2, <2>3, <2>4 DEF RestoreNext
<1> QED BY <1>1, <1>2, PTL DEF RestoreSpec

(***************************************************************************)
(* The theorems hold of a unit that starts with its configured charge and  *)
(* of one that a state file gives another, which may be above its capacity. *)
(***************************************************************************)

\* A stopped PCS, or one without a DC bus, exchanges no power.
THEOREM IdleWhenDead ==
    (Spec => []DeadUnitIsIdle) /\ (RestoreSpec => []DeadUnitIsIdle)
<1>1. SafetyInv => DeadUnitIsIdle
  BY DEF SafetyInv
<1> QED BY <1>1, SafetyInvariant, RestoredInvariant, PTL

\* A PCS running on an open contactor carries the fault latch.
THEOREM FaultedOnDeadBus ==
    (Spec => []DeadBusIsFaulted) /\ (RestoreSpec => []DeadBusIsFaulted)
<1>1. SafetyInv => DeadBusIsFaulted
  BY DEF SafetyInv
<1> QED BY <1>1, SafetyInvariant, RestoredInvariant, PTL

\* The power-command aliases never disagree.
THEOREM AliasCoherence ==
    (Spec => []AliasesAgree) /\ (RestoreSpec => []AliasesAgree)
<1>1. SafetyInv => AliasesAgree
  BY DEF SafetyInv
<1> QED BY <1>1, SafetyInvariant, RestoredInvariant, PTL

\* Active and reactive output stay within the rating of the unit.
THEOREM CapacityBounded ==
    (Spec => []CapacityRespected) /\ (RestoreSpec => []CapacityRespected)
<1>1. SafetyInv => CapacityRespected
  BY DEF SafetyInv
<1> QED BY <1>1, SafetyInvariant, RestoredInvariant, PTL

-----------------------------------------------------------------------------
(***************************************************************************)
(* Action properties.                                                      *)
(***************************************************************************)

\* What every tick does, as far as the action properties need it.
LEMMA TickEffect ==
    ASSUME SafetyInv, Tick
    PROVE  /\ hv' = HVAfter /\ running' = RunningAfter
           /\ remote' = (ctl["remoteLocal"] = 1)
           /\ fault' = (FaultAfter \/ BusLost(running', hv'))
           /\ ctl'["powerCmd"] = SelectedCommand
           /\ \E dt \in Delays, x, y \in Int :
                 /\ UpdateEnergy(x, dt) /\ q' = y
                 /\ (~running' \/ ~hv') => x = 0 /\ y = 0
                 /\ \/ remote' /\ x \in Tracked(Clamp(SelectedCommand, -Rated, Rated))
                    \/ ~remote' /\ x = PowerAfter(p) /\ y = PowerAfter(q)
                    \/ x = 0 /\ y = 0
<1>0. PICK dt \in Delays :
        \E v \in Relaxed(volt, BusTarget(PowerAfter(p), PowerAfter(q)), dt) :
          \E out : TickWith(dt, v, out)
  BY TickParts
<1>1. PICK v \in Relaxed(volt, BusTarget(PowerAfter(p), PowerAfter(q)), dt) :
        \E out : TickWith(dt, v, out)
  BY <1>0
<1>2. PICK out : TickWith(dt, v, out)
  BY <1>1
<1>3. v \in Int
  BY <1>1, RelaxedType DEF SafetyInv
<1>4. out[1] \in Int /\ out[2] \in Int
  BY <1>2, <1>3, OutputType DEF TickWith, SafetyInv
<1>5. (~running' \/ ~hv') => out[1] = 0 /\ out[2] = 0
  BY <1>2, <1>3, OutputSafe
<1>6. \/ remote' /\ out[1] \in Tracked(Clamp(SelectedCommand, -Rated, Rated))
      \/ ~remote' /\ out[1] = PowerAfter(p) /\ out[2] = PowerAfter(q)
      \/ out[1] = 0 /\ out[2] = 0
  <2>1. out \in Outputs(running', remote', hv', v)
    BY <1>2 DEF TickWith
  <2> QED BY <2>1, OutputCases
<1>7. UpdateEnergy(out[1], dt) /\ q' = out[2]
  BY <1>2 DEF TickWith
<1>8. ctl'["powerCmd"] = SelectedCommand
  BY <1>2 DEF TickWith, Consumed, Controls, Settings, Pulses
<1>9. /\ hv' = HVAfter /\ running' = RunningAfter
      /\ remote' = (ctl["remoteLocal"] = 1)
      /\ fault' = (FaultAfter \/ BusLost(running', hv'))
  BY <1>2 DEF TickWith
<1>10. \E x, y \in Int :
          /\ UpdateEnergy(x, dt) /\ q' = y
          /\ (~running' \/ ~hv') => x = 0 /\ y = 0
          /\ \/ remote' /\ x \in Tracked(Clamp(SelectedCommand, -Rated, Rated))
             \/ ~remote' /\ x = PowerAfter(p) /\ y = PowerAfter(q)
             \/ x = 0 /\ y = 0
  <2> USE <1>4
  <2> WITNESS out[1] \in Int, out[2] \in Int
  <2> QED BY <1>5, <1>6, <1>7
<1> QED BY <1>0, <1>8, <1>9, <1>10

\* Only a reset pulse clears the fault, and not on a dead bus.
THEOREM FaultLatch ==
    (Spec => FaultIsLatched) /\ (RestoreSpec => FaultIsLatched)
<1>1. SafetyInv /\ ([Next]_vars \/ [RestoreNext]_restoreVars)
        => [fault /\ ~fault' => Pulse("pcsReset") /\ (running' => hv')]_vars
  <2> SUFFICES ASSUME SafetyInv, [Next]_vars \/ [RestoreNext]_restoreVars,
                      fault, ~fault'
               PROVE  Pulse("pcsReset") /\ (running' => hv')
    OBVIOUS
  <2>1. CASE Tick
    BY <2>1, TickEffect DEF FaultAfter, BusLost
  <2>2. ASSUME NEW w \in Requests, Write(w) PROVE FALSE
    BY <2>2 DEF Write
  <2>3. ~ Restore
    BY DEF Restore, RestoreUnit, vars
  <2>4. ~ UNCHANGED vars
    BY DEF vars
  <2> QED BY <2>1, <2>2, <2>3, <2>4
          DEF Next, RestoreNext, RestoredTick, ClientWrite, restoreVars
<1> QED BY <1>1, SafetyInvariant, RestoredInvariant, PTL
        DEF Spec, RestoreSpec, FaultIsLatched

\* A stop or open pulse prevails over everything written beside it.
THEOREM StopPrevails ==
    (Spec => StopWins) /\ (RestoreSpec => StopWins)
<1>1. SafetyInv
        => [Tick => /\ Pulse("shutdown") \/ Pulse("estop") => ~running'
                    /\ Pulse("openHV") => ~hv'
                    /\ Tripped => p' = 0 /\ q' = 0]_vars
  <2> SUFFICES ASSUME SafetyInv, Tick
               PROVE  /\ Pulse("shutdown") \/ Pulse("estop") => ~running'
                      /\ Pulse("openHV") => ~hv'
                      /\ Tripped => p' = 0 /\ q' = 0
    OBVIOUS
  <2>1. /\ Pulse("shutdown") \/ Pulse("estop") => ~running'
        /\ Pulse("openHV") => ~hv'
    BY TickEffect DEF RunningAfter, HVAfter
  <2>2. PICK dt \in Delays, x, y \in Int :
          /\ UpdateEnergy(x, dt) /\ q' = y
          /\ (~running' \/ ~hv') => x = 0 /\ y = 0
    BY TickEffect
  <2>3. p' \in {0, x}
    BY <2>2, EnergyStep DEF SafetyInv
  <2> QED BY <2>1, <2>2, <2>3 DEF Tripped
<1> QED BY <1>1, SafetyInvariant, RestoredInvariant, PTL DEF Spec, RestoreSpec, StopWins

\* Local mode keeps the output or drops it.
THEOREM LocalModeHolds ==
    (Spec => LocalHolds) /\ (RestoreSpec => LocalHolds)
<1>1. SafetyInv
        => [Tick /\ ctl["remoteLocal"] # 1 => p' \in {0, p} /\ q' \in {0, q}]_vars
  <2> SUFFICES ASSUME SafetyInv, Tick, ctl["remoteLocal"] # 1
               PROVE  p' \in {0, p} /\ q' \in {0, q}
    OBVIOUS
  <2>1. PICK dt \in Delays, x, y \in Int :
          /\ UpdateEnergy(x, dt) /\ q' = y
          /\ \/ x = PowerAfter(p) /\ y = PowerAfter(q)
             \/ x = 0 /\ y = 0
    BY TickEffect
  <2>2. p' \in {0, x}
    BY <2>1, EnergyStep DEF SafetyInv
  <2> QED BY <2>1, <2>2 DEF PowerAfter
<1> QED BY <1>1, SafetyInvariant, RestoredInvariant, PTL DEF Spec, RestoreSpec, LocalHolds

\* A full store is not charged and an empty one not discharged, nor is such
\* energy counted.
THEOREM NoOvercharge ==
    (Spec => NoFlowPastLimit) /\ (RestoreSpec => NoFlowPastLimit)
<1>1. SafetyInv
        => [Tick => /\ energy >= Cap => p' >= 0 /\ charged' = charged
                    /\ energy = 0 => p' <= 0 /\ discharged' = discharged]_vars
  <2> SUFFICES ASSUME SafetyInv, Tick
               PROVE  /\ energy >= Cap => p' >= 0 /\ charged' = charged
                      /\ energy = 0 => p' <= 0 /\ discharged' = discharged
    OBVIOUS
  <2>1. PICK dt \in Delays, x, y \in Int : UpdateEnergy(x, dt)
    BY TickEffect
  <2>2. energy \in Int /\ Cap \in Int /\ Cap > 0
    BY UnitAssumption DEF SafetyInv, UnitTypes
  <2>3. p' \in {0, x}
    BY <2>1, EnergyStep DEF SafetyInv
  <2>4. CASE Blocked(x)
    BY <2>1, <2>2, <2>3, <2>4 DEF UpdateEnergy, ChargeBooked, Drained, Blocked, Clamp
  <2>5. CASE ~Blocked(x)
    <3> DEFINE flow == x * dt
    <3>1. flow \in Int /\ (x > 0 => flow >= 0) /\ (x < 0 => flow <= 0)
      BY UnitAssumption
    <3>2. Drained(x, dt) = energy - flow
      BY <2>5 DEF Drained
    <3> HIDE DEF flow
    <3>3. /\ charged' = IF energy - flow > energy
                        THEN charged + (energy - flow - energy) ELSE charged
          /\ discharged' = IF energy - flow < energy
                           THEN discharged + (energy - (energy - flow))
                           ELSE discharged
      BY <2>1, <3>2 DEF UpdateEnergy, ChargeBooked
    <3>4. (energy >= Cap => x > 0) /\ (energy = 0 => x < 0)
      BY <2>2, <2>5 DEF Blocked
    <3> QED BY <2>2, <2>3, <3>1, <3>3, <3>4
  <2> QED BY <2>4, <2>5
<1> QED BY <1>1, SafetyInvariant, RestoredInvariant, PTL DEF Spec, RestoreSpec, NoFlowPastLimit

\* Under remote control power flows as commanded or not at all.
THEOREM CommandDirection ==
    (Spec => FollowsCommand) /\ (RestoreSpec => FollowsCommand)
<1>1. SafetyInv
        => [Tick /\ ctl["remoteLocal"] = 1 /\ p' # 0
             => (p' > 0) = (ctl'["powerCmd"] > 0)]_vars
  <2> SUFFICES ASSUME SafetyInv, Tick, ctl["remoteLocal"] = 1, p' # 0
               PROVE  (p' > 0) = (SelectedCommand > 0)
    BY TickEffect
  <2> DEFINE c == Clamp(SelectedCommand, -Rated, Rated)
  <2>1. PICK dt \in Delays, x, y \in Int :
          UpdateEnergy(x, dt) /\ (x \in Tracked(c) \/ x = 0)
    BY TickEffect
  <2>2. p' = x
    BY <2>1, EnergyStep DEF SafetyInv
  <2>3. SelectedCommand \in Int
    BY DEF SafetyInv, SelectedCommand, UnitTypes, Controls, Settings
  <2>4. c \in Int /\ (c > 0) = (SelectedCommand > 0)
    BY <2>3, UnitAssumption DEF Clamp
  <2>5. x \in Tracked(c)
    BY <2>1, <2>2
  <2>6. (x > 0) = (c > 0)
    <3> HIDE DEF c
    <3>1. (c > 0 => x > 0) /\ (c < 0 => x < 0) /\ (c = 0 => x = 0)
      BY <2>4, <2>5, TrackedBounds
    <3> QED BY <3>1, <2>1, <2>2, <2>4
  <2> QED BY <2>2, <2>4, <2>6
<1> QED BY <1>1, SafetyInvariant, RestoredInvariant, PTL DEF Spec, RestoreSpec, FollowsCommand

\* The lifetime totals account for every change of the stored energy, except
\* that a step clipped at a limit is booked whole.
THEOREM LedgerAccounts ==
    (Spec => LedgerBalances) /\ (RestoreSpec => LedgerBalances)
<1> DEFINE in   == charged' - charged
           out  == discharged' - discharged
           gain == energy' - energy
           Balanced == /\ in >= 0 /\ out >= 0 /\ (in = 0 \/ out = 0)
                       /\ \/ gain = in - out
                          \/ energy' = Cap /\ p' = 0 /\ gain < in - out
                          \/ energy' = 0 /\ p' = 0 /\ gain > in - out
<1>1. SafetyInv => [Tick => Balanced]_vars
  <2> SUFFICES ASSUME SafetyInv, Tick PROVE Balanced
    OBVIOUS
  <2>0. /\ energy \in Int /\ charged \in Int /\ discharged \in Int
        /\ 0 <= energy /\ Cap \in Int /\ Cap >= 0
    BY UnitAssumption DEF SafetyInv, UnitTypes
  <2>1. PICK dt \in Delays, x, y \in Int : UpdateEnergy(x, dt)
    BY TickEffect
  <2> DEFINE raw == Drained(x, dt)
  <2>2. raw \in Int
    <3>1. x * dt \in Int
      BY UnitAssumption
    <3> QED BY <2>0, <3>1 DEF Drained
  <2>3. /\ energy' = Clamp(raw, 0, Cap) \/ (raw = energy /\ energy' = energy)
        /\ charged' = IF raw > energy THEN charged + (raw - energy) ELSE charged
        /\ discharged' = IF raw < energy THEN discharged + (energy - raw)
                         ELSE discharged
        /\ raw < 0 \/ raw > Cap => p' = 0
    BY <2>1 DEF UpdateEnergy, ChargeBooked, Drained
  <2> HIDE DEF raw
  <2>4. CASE raw < 0
    BY <2>0, <2>2, <2>3, <2>4 DEF Clamp
  <2>5. CASE raw > Cap
    BY <2>0, <2>2, <2>3, <2>5 DEF Clamp
  <2>6. CASE 0 <= raw /\ raw <= Cap
    <3>1. energy' = raw
      BY <2>0, <2>2, <2>3, <2>6 DEF Clamp
    <3> QED BY <2>0, <2>2, <2>3, <3>1
  <2> QED BY <2>0, <2>2, <2>4, <2>5, <2>6
<1> QED BY <1>1, SafetyInvariant, RestoredInvariant, PTL DEF Spec, RestoreSpec, LedgerBalances

\* Exactly one of running, fault and standby is published, and fault is the
\* latch.
THEOREM FlagsExact ==
    (Spec => SystemFlagsExact) /\ (RestoreSpec => SystemFlagsExact)
<1>1. [Tick =>
          /\ tel'["sysRunning"] + tel'["sysFault"] + tel'["sysStandby"] = 1
          /\ tel'["sysFault"] = Flag(fault')]_vars
  <2> SUFFICES ASSUME Tick
               PROVE  /\ tel'["sysRunning"] + tel'["sysFault"] + tel'["sysStandby"] = 1
                      /\ tel'["sysFault"] = Flag(fault')
    OBVIOUS
  <2>1. PICK dt, v, out : TickWith(dt, v, out)
    BY TickParts
  <2> DEFINE sysFault == SystemFault(Flag(fault'), 0)
             active   == running' /\ (p' # 0 \/ q' # 0) /\ ~sysFault
  <2>2. /\ tel'["sysRunning"] = Flag(active)
        /\ tel'["sysFault"] = Flag(sysFault)
        /\ tel'["sysStandby"] = Flag(~active /\ ~sysFault)
    BY <2>1 DEF TickWith, Synced
  <2>3. Flag(sysFault) = Flag(fault')
    BY DEF Flag, SystemFault
  <2>4. Flag(active) + Flag(sysFault) + Flag(~active /\ ~sysFault) = 1
    <3>1. ~(active /\ sysFault)
      OBVIOUS
    <3> HIDE DEF active, sysFault
    <3> QED BY <3>1 DEF Flag
  <2> QED BY <2>2, <2>3, <2>4
<1> QED BY <1>1, PTL DEF Spec, RestoreSpec, SystemFlagsExact

-----------------------------------------------------------------------------
\* A store that is restored above its capacity is not charged, gives no power
\* while it is above, and does not rise above again.
THEOREM OverfullOnlyFalls == RestoreSpec => OverfullIsShed
<1>1. SafetyInv
        => [RestoredTick =>
              /\ energy > Cap =>
                    /\ charged' = charged /\ p' >= 0
                    /\ energy' > Cap => energy' = energy /\ p' = 0
              /\ energy' > Cap => energy > Cap]_restoreVars
  <2> SUFFICES ASSUME SafetyInv, RestoredTick
               PROVE  /\ energy > Cap =>
                            /\ charged' = charged /\ p' >= 0
                            /\ energy' > Cap => energy' = energy /\ p' = 0
                      /\ energy' > Cap => energy > Cap
    OBVIOUS
  <2>1. PICK dt \in Delays, x, y \in Int : UpdateEnergy(x, dt)
    BY TickEffect DEF RestoredTick
  <2>2. /\ energy' \in Nat /\ energy \in Nat /\ Cap \in Nat
        /\ energy' <= Cap \/ (energy' = energy /\ p' = 0)
        /\ energy >= Cap => charged' = charged /\ p' >= 0
    BY <2>1, EnergyStep, UnitAssumption DEF SafetyInv, UnitTypes
  <2> QED BY <2>2
<1> QED BY <1>1, RestoredInvariant, PTL DEF RestoreSpec, OverfullIsShed
=============================================================================
