--------------------------- MODULE AirConditioner ---------------------------
(***************************************************************************)
(* An air-cooled (AC) or liquid-cooled (LC) conditioner: a two-point       *)
(* controller with hysteresis and the room it heats or cools               *)
(* (internal/simulator/air_conditioner.go).  OnWrite and the Update of a   *)
(* tick run under Simulator.mu, so each is one step.                       *)
(*                                                                         *)
(* Set-points and differentials are integers; the room and the ambient     *)
(* temperature count half of their unit, so that "differential / 2" is an  *)
(* integer.  The exponential filter of one tick becomes a step of any      *)
(* length towards its target, never past it.                               *)
(***************************************************************************)
EXTENDS Integers

CONSTANTS
    Kinds,         \* the kinds of the configuration: "AC", "LC"
    Requests,      \* the <<register, value>> writes clients may send
    CoolInit, HeatInit, CoolDiffInit, HeatDiffInit,  \* the configuration
    RoomInit,
    Ambients       \* the ambient temperatures met, in half units

Stopped == 0
Cooling == 1
Heating == 2

ASSUME ConfigAssumption ==   \* validateAirConditionerConfig
    /\ Kinds \subseteq {"AC", "LC"}
    /\ CoolInit \in Int /\ HeatInit \in Int /\ HeatInit < CoolInit
    /\ CoolDiffInit \in Nat \ {0} /\ HeatDiffInit \in Nat \ {0}
    /\ RoomInit \in Int /\ Ambients \subseteq Int /\ Ambients # {}

ASSUME RequestAssumption ==
    Requests \subseteq {"cool", "coolDiff", "heat", "heatDiff", "control"} \X Int

VARIABLES
    kind,          \* fixed when the unit is built
    enabled, status,
    cool, heat, coolDiff, heatDiff,
    room,          \* indoorTemperature
    shown          \* the status register, 0x116 or the high byte of 0x0000

vars == <<kind, enabled, status, cool, heat, coolDiff, heatDiff, room, shown>>

-----------------------------------------------------------------------------
Init ==
    /\ kind \in Kinds
    /\ enabled = FALSE /\ status = Stopped
    /\ cool = CoolInit /\ heat = HeatInit
    /\ coolDiff = CoolDiffInit /\ heatDiff = HeatDiffInit
    /\ room = RoomInit
    /\ shown = 0

(***************************************************************************)
(* onACWrite and onLCWrite.                                                *)
(***************************************************************************)
\* Bug: a differential is taken over unchecked.
AnySetting(v, old) == v

PositiveSetting(v, old) == IF v > 0 THEN v ELSE old

SettingWrite(r, v) ==
    /\ r # "control"
    /\ cool' = IF r = "cool" THEN v ELSE cool
    /\ heat' = IF r = "heat" THEN v ELSE heat
    /\ coolDiff' = IF r = "coolDiff" THEN PositiveSetting(v, coolDiff) ELSE coolDiff
    /\ heatDiff' = IF r = "heatDiff" THEN PositiveSetting(v, heatDiff) ELSE heatDiff
    /\ UNCHANGED <<enabled, status>>

\* 0x106 of an AC: on iff 1.
ACControl(v) == kind = "AC" /\ enabled' = (v = 1) /\ UNCHANGED status

\* 0x300 of an LC: 1 on, 2 off, 4 fault reset; anything else is ignored.
LCControl(v) ==
    /\ kind = "LC"
    /\ enabled' = IF v = 1 THEN TRUE ELSE IF v = 2 THEN FALSE ELSE enabled
    /\ status' = IF v = 4 THEN Stopped ELSE status

OnWrite(r, v) ==
    /\ \/ SettingWrite(r, v)
       \/ /\ r = "control"
          /\ ACControl(v) \/ LCControl(v)
          /\ UNCHANGED <<cool, heat, coolDiff, heatDiff>>
    /\ UNCHANGED <<kind, room, shown>>

(***************************************************************************)
(* A tick: updateStatus on the present temperature, one filter step        *)
(* towards the target of the new status, then Sync.                        *)
(***************************************************************************)
CoolingDone == room <= 2 * (cool - coolDiff)
HeatingDone == room >= 2 * (heat + heatDiff)


StatusAfter ==
    IF ~enabled THEN Stopped
    ELSE CASE status = Cooling -> IF CoolingDone THEN Stopped ELSE Cooling
           [] status = Heating -> IF HeatingDone THEN Stopped ELSE Heating
           [] OTHER -> IF room >= 2 * cool THEN Cooling
                       ELSE IF room <= 2 * heat THEN Heating ELSE Stopped

CoolTarget == 2 * cool - coolDiff
HeatTarget == 2 * heat + heatDiff

Target(st, ambient) ==
    CASE st = Cooling -> CoolTarget
      [] st = Heating -> HeatTarget
      [] OTHER -> ambient

Toward(x, t) == IF x <= t THEN x..t ELSE t..x

\* acStatus and lcStatus.
Encoded(st) ==
    IF kind = "AC" THEN (IF st = Stopped THEN 0 ELSE st + 1)
    ELSE IF enabled THEN st ELSE 0

Tick ==
    /\ status' = StatusAfter
    /\ \E ambient \in Ambients : room' \in Toward(room, Target(StatusAfter, ambient))
    /\ shown' = Encoded(StatusAfter)
    /\ UNCHANGED <<kind, enabled, cool, heat, coolDiff, heatDiff>>

Next == Tick \/ \E w \in Requests : OnWrite(w[1], w[2])

Spec == Init /\ [][Next]_vars

\* Ticks go on, and the filter crosses every unit of temperature on its way to
\* a target in finitely many of them.
FairSpec == Spec /\ WF_vars(Tick) /\ WF_vars(Tick /\ room' # room)

-----------------------------------------------------------------------------

\* Once clients leave it on, with set-points whose targets do not meet, a
\* conditioner brings the room between the set-points and keeps it there,
\* whatever the ambient temperature does and whatever state and differentials the
\* writes before left it with.
Comfortable  == 2 * heat < room /\ room < 2 * cool
TargetsApart == 2 * heat < CoolTarget /\ HeatTarget < 2 * cool
RoomIsKept   == <>[][Tick]_vars /\ <>[](enabled /\ TargetsApart) => <>[]Comfortable
=============================================================================
