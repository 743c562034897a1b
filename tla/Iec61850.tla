------------------------------ MODULE Iec61850 ------------------------------
(***************************************************************************)
(* The IEC 61850 server of one battery (internal/protocol/iec61850): its   *)
(* controls write PCS registers, and after each tick the main goroutine    *)
(* copies registers to the data model, updates the alarms and publishes    *)
(* GOOSE.                                                                  *)
(*                                                                         *)
(* The copy runs under the lock of the data model, which libiec61850 also  *)
(* holds while it handles a control, and without Simulator.mu.  A control  *)
(* takes the mutex for each register by itself, so that ticks and writes   *)
(* of other clients come between its writes.                               *)
(***************************************************************************)
EXTENDS BatteryUnit, Sequences

CONSTANTS
    Operations,          \* controls that clients operate: object, type, value
    CommandRange,        \* the set-points a command register can hold
    RaiseAt, ClearAt,    \* alarmSOCHighPercent, alarmSOCClearPercent, as energy
    Interval,            \* gooseInterval, in clock units
    ClockSteps,          \* what the wall clock may advance by between two ticks
    MaxWait              \* bound: the clock is never set back further than that

One(r, v) == [x \in {r} |-> v]

\* Bug: standby leaves the reactive power.
StandbyActiveOnly == <<One("powerCmd", 0)>>

\* ctlStandby and command 3 of ctlPCSCommand: two writes, not one request.
Standby == <<One("powerCmd", 0), One("reactiveCmd", 0)>>

IsStandby(c) ==
    (c.object = "SPCSO6" /\ c.value = 1) \/ (c.object = "APCS9" /\ c.value = 3)

NoWrite == [x \in {} |-> 0]

\* The register write of the other controls, unless the value is refused.
Command(c) ==
    CASE c.object = "APCS1" /\ c.value \in CommandRange -> One("powerCmd", c.value)
      [] c.object = "APCS2" /\ c.value \in CommandRange -> One("reactiveCmd", c.value)
      [] c.object = "APCS6" /\ c.value \in -1000..1000  -> One("powerFactorCmd", c.value)
      [] c.object = "APCS9" /\ c.value = 0 -> One("shutdown", 1)
      [] c.object = "APCS9" /\ c.value = 1 -> One("startup", 1)
      [] c.object = "APCS9" /\ c.value = 2 -> One("pcsReset", 1)
      [] c.object = "APCS10" /\ c.value \in 0..1 -> One("gridMode", c.value)
      [] c.object = "APCS13" /\ c.value \in 0..2 -> One("reactiveMode", c.value)
      [] c.object = "SPCSO2" /\ c.value = 0 -> One("shutdown", 1)
      [] c.object = "SPCSO2" /\ c.value = 1 -> One("startup", 1)
      [] c.object = "SPCSO5" /\ c.value = 1 -> One("pcsReset", 1)
      [] OTHER -> NoWrite

\* The register writes a control makes; none, if it is refused.  ok tells that
\* ctlFloat, ctlInt or ctlBool could read the value.
Writes(c) ==
    IF ~c.ok THEN <<>>
    ELSE IF IsStandby(c) THEN Standby
    ELSE IF Command(c) = NoWrite THEN <<>> ELSE <<Command(c)>>

ASSUME IecAssumption ==
    /\ CommandRange \subseteq Int
    /\ \A c \in Operations : \A i \in DOMAIN Writes(c) : Writes(c)[i] \in Requests
    /\ RaiseAt \in 0..Cap /\ ClearAt \in 0..Cap /\ ClearAt < RaiseAt
    /\ Interval \in Nat /\ ClockSteps \subseteq Int /\ MaxWait \in Nat

VARIABLES
    stage,      \* what the main goroutine does next
    todo,       \* the points it has still to copy
    shown,      \* the points copied since the tick
    alarms,     \* Alm12 and Alm2; the latter is also its latch
    job,        \* the writes the control in progress has still to make
    wait,       \* gooseInterval - (now - gooseLastPublish), 0 when it is due
    \* history
    standing,   \* a standby command is in progress, or is answered, and no
                \* set-point has been written since
    touched,    \* status registers overwritten between the tick and the copy's
                \* end, and set-points overwritten during the copy
    swing       \* the energy at the last change of Alm2

server == <<stage, todo, shown, alarms, job, wait, standing, touched, swing>>
iecVars == <<vars, server>>

-----------------------------------------------------------------------------
\* The points followed here, in the order updatePigo and updateSetReadback
\* write them: the state and the active set-point of GOOSE, and the read-back
\* of that set-point.
Order == <<"AnIn3", "AnIn8", "APCS1">>

Active    == {"powerCmd", "powerCmdAlias"}
SetPoints == Active \cup {"reactiveCmd"}
Status    == {"pcsStatus", "pcsFault", "gridStatus"}

\* Bug: an off-grid unit never shows a fault.
OffGridFirst ==
    IF tel["gridStatus"] # 0 /\ tel["pcsStatus"] # 1 THEN 5
    ELSE IF tel["pcsFault"] # 0 THEN 6
    ELSE IF tel["pcsStatus"] \in 1..4 THEN tel["pcsStatus"] - 1 ELSE 4

\* iec61850PCSStatus: 0 off, 1 standby, 2 charge, 3 discharge, 4 unknown,
\* 5 off-grid, 6 fault.
PCSStatus ==
    IF tel["pcsFault"] # 0 THEN 6
    ELSE IF tel["gridStatus"] # 0 /\ tel["pcsStatus"] # 1 THEN 5
    ELSE IF tel["pcsStatus"] \in 1..4 THEN tel["pcsStatus"] - 1 ELSE 4

NoPoint == [x \in {} |-> 0]

\* What a client of another protocol may disturb at each stage.
Disturbed ==
    CASE stage = "lock" -> Status [] stage = "copy" -> Status \cup Active
      [] OTHER -> {}

Value(point) ==
    CASE point = "AnIn3" -> PCSStatus
      [] OTHER -> ctl["powerCmd"]

\* Bug: one threshold for both directions.
NoHysteresis(latched) == energy >= RaiseAt

\* alarmWithHysteresis, of the state of charge.
SOCHigh(latched) ==
    IF latched /\ energy <= ClearAt THEN FALSE
    ELSE IF ~latched /\ energy >= RaiseAt THEN TRUE
    ELSE latched

\* run calls Sync once before the first tick; nothing has been published yet.
IecInit ==
    /\ Init
    /\ stage = "lock" /\ todo = <<>>
    /\ shown = NoPoint
    /\ alarms = [dc |-> FALSE, soc |-> FALSE]
    /\ job = <<>>
    /\ wait = 0
    /\ standing = "none" /\ touched = {} /\ swing = ClearAt

-----------------------------------------------------------------------------
(***************************************************************************)
(* The main goroutine: a tick, then Sync.                                  *)
(***************************************************************************)

\* publishGOOSE compares wall-clock times: a clock set back lengthens the wait.
IecTick ==
    /\ stage = "tick"
    /\ Tick
    /\ stage' = "lock"
    /\ \E d \in ClockSteps :
          /\ wait - d <= MaxWait
          /\ wait' = IF d > wait THEN 0 ELSE wait - d
    /\ UNCHANGED <<todo, shown, alarms, job, standing, touched, swing>>

Lock ==
    /\ stage = "lock" /\ job = <<>>
    /\ stage' = "copy" /\ todo' = Order
    /\ UNCHANGED <<vars, shown, alarms, job, wait, standing, touched, swing>>

Copy ==
    /\ stage = "copy" /\ todo # <<>>
    /\ shown' = [x \in DOMAIN shown \cup {Head(todo)} |->
                    IF x = Head(todo) THEN Value(x) ELSE shown[x]]
    /\ todo' = Tail(todo)
    /\ UNCHANGED <<vars, stage, alarms, job, wait, standing, touched, swing>>

\* updateAlarms, and the end of the copy.
Unlock ==
    /\ stage = "copy" /\ todo = <<>>
    /\ alarms' = [dc |-> fault, soc |-> SOCHigh(alarms.soc)]
    /\ swing' = IF alarms'.soc = alarms.soc THEN swing ELSE energy
    /\ stage' = "publish"
    /\ touched' = touched \ Active
    /\ UNCHANGED <<vars, todo, shown, job, wait, standing>>

\* Bug: a publication that is not due starts the interval anew.
Postponed == Interval
Waiting == wait

SyncEnds ==
    /\ stage = "publish" /\ stage' = "tick"
    /\ shown' = NoPoint /\ touched' = {}
    /\ UNCHANGED <<vars, todo, alarms, job, standing, swing>>

NotDue  == wait > 0 /\ wait' = Waiting /\ SyncEnds
Publish == wait = 0 /\ wait' = Interval /\ SyncEnds

\* The frame is not sent, and the next Sync tries again.
PublishFails == wait = 0 /\ UNCHANGED wait /\ SyncEnds

-----------------------------------------------------------------------------
(***************************************************************************)
(* Controls, and the clients of other protocols.                           *)
(***************************************************************************)

\* Bug: Sync does not lock the data model.
NeverLocked == TRUE
ModelFree == stage # "copy"

\* A control that is not refused; libiec61850 handles one at a time.
Operate(c) ==
    /\ ModelFree /\ job = <<>>
    /\ Writes(c) # <<>>
    /\ job' = Writes(c)
    /\ standing' = IF IsStandby(c) THEN "asked"
                   ELSE IF SetPoints \cap DOMAIN Writes(c)[1] # {} THEN "none"
                   ELSE standing
    /\ UNCHANGED <<vars, stage, todo, shown, alarms, wait, touched, swing>>

\* Bug: the register is set without telling the unit.
PastTheHook(w) ==
    /\ ctl' = Overlay(ctl, w)
    /\ UNCHANGED <<tel, running, hv, remote, gridTied, fault, p, q, volt,
                   energy, charged, discharged, lastCmd, lastAlias>>

\* writeTargetPCS.
WriteTarget(w) == Write(w)

ControlWrite ==
    /\ job # <<>>
    /\ WriteTarget(Head(job))
    /\ job' = Tail(job)
    /\ standing' = IF standing = "asked" /\ job' = <<>> THEN "done" ELSE standing
    /\ UNCHANGED <<stage, todo, shown, alarms, wait, touched, swing>>

Client(w) ==
    /\ Write(w)
    /\ touched' = touched \cup (DOMAIN w \cap Disturbed)
    /\ standing' = IF DOMAIN w \cap SetPoints = {} THEN standing ELSE "none"
    /\ UNCHANGED <<stage, todo, shown, alarms, job, wait, swing>>

IecNext ==
    \/ IecTick \/ Lock \/ Copy \/ Unlock \/ NotDue \/ Publish \/ PublishFails
    \/ \E c \in Operations : Operate(c)
    \/ ControlWrite
    \/ \E w \in Requests : Client(w)

IecSpec == IecInit /\ [][IecNext]_iecVars

\* The main goroutine goes on, a control that has begun ends, neither is kept
\* from the lock for ever, and not every frame is lost.
IecFairness ==
    /\ WF_iecVars(IecTick) /\ SF_iecVars(Lock)
    /\ WF_iecVars(Copy \/ Unlock \/ NotDue \/ Publish \/ PublishFails)
    /\ SF_iecVars(Publish) /\ WF_iecVars(ControlWrite)

-----------------------------------------------------------------------------
(***************************************************************************)
(* Properties.                                                             *)
(***************************************************************************)

\* Whatever controls are operated, and however they are interleaved with ticks,
\* the battery behaves as one that clients write to directly.
BehavesAsUnit == Spec

\* At the end of a copy the set-points GOOSE carries, those a client reads back
\* and those in force are the same, although each is read by itself: the lock
\* keeps controls out, and only a client of another protocol comes between.
ReadBackWhole ==
    stage = "copy" /\ todo = <<>> /\ touched \cap Active = {} =>
        shown["AnIn8"] = ctl["powerCmd"] /\ shown["APCS1"] = ctl["powerCmd"]

\* What is published of a unit's state is what the last tick left, unless a client
\* has overwritten a status register: a fault is shown as such and alarmed, off-grid
\* or not, and charging and discharging only while that power flows.
PublishedStatusTrue ==
    stage = "publish" /\ touched \cap Status = {} =>
        /\ shown["AnIn3"] = 6 <=> fault
        /\ alarms.dc <=> fault
        /\ shown["AnIn3"] = 0 => ~running
        /\ shown["AnIn3"] = 2 => p < 0 /\ hv
        /\ shown["AnIn3"] = 3 => p > 0 /\ hv

\* A standby command that has been answered leaves the unit without power from the
\* next tick on, until a set-point is written, although its two writes are made one
\* after the other with ticks between; only remote control and no Q-U curve is asked.
StandbyIdles ==
    [][IecTick /\ standing = "done"
       /\ ctl["remoteLocal"] = 1 /\ ctl["reactiveMode"] # 2
       => p' = 0 /\ q' = 0]_iecVars

\* Alm2 does not chatter: between two changes of it the store moves by the whole
\* band of the hysteresis.
AlarmSwings ==
    [][alarms'.soc # alarms.soc => Abs(energy - swing) >= RaiseAt - ClearAt]_iecVars

\* GOOSE goes on for as long as the clock is not set back again and again.
GooseGoesOn ==
    <>[][~(IecTick /\ wait' > wait)]_iecVars => []<><<Publish>>_iecVars
=============================================================================
