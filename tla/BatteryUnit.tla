---------------------------- MODULE BatteryUnit ----------------------------
(***************************************************************************)
(* One battery unit: a PCS slave and a BMS slave that share one energy     *)
(* store (internal/simulator/battery_*.go), driven by the once-a-second    *)
(* Tick of the simulator and by register writes that arrive between ticks  *)
(* from Modbus, CAN, XN3477 and IEC 61850 clients.  Tick and every write   *)
(* hold Simulator.mu, so each is one atomic action.                        *)
(*                                                                         *)
(* Units.  A power command counts command steps; a power is measured in    *)
(* 1/Fine of a step, so that the +-1/Fine tracking jitter (0.5 % in the    *)
(* code, Fine = 200) is an integer.  Energy is power times seconds.        *)
(* Voltages are integers in the scale of register 30020, and a reactive    *)
(* power has the scale of an active one.                                   *)
(***************************************************************************)
EXTENDS Integers

CONSTANTS
    Cap,          \* ratedCapacityKWh
    InitEnergy,   \* ratedCapacityKWh * InitialSOC / 100
    Rated,        \* ratedPowerKW, in command steps
    Fine,         \* power units per command step; the jitter is 1 in Fine
    Delays,       \* the seconds that may pass between two ticks
    Requests,     \* the writes clients may send: partial maps from registers
    TanAcos,      \* |PF| in thousandths -> tan(acos |PF|), rounded
    Nominal,      \* pcsACVoltage
    VoltageSpan,  \* nominal * maxVoltageDeviationPU
    Deadband, FullResponse,      \* Q-U curve, as voltage deviations
    Resistance, Reactance, Base  \* bus coupling: volts per Base power units

\* Registers whose value the next tick acts on.
Pulses   == {"startup", "shutdown", "estop", "pcsReset",
             "closeHV", "openHV", "bmsReset"}
Settings == {"remoteLocal", "gridMode", "powerCmd", "powerCmdAlias",
             "reactiveMode", "reactiveCmd", "powerFactorCmd",
             "gridVoltageCmd", "maxChargeSetting", "maxDischargeSetting"}
Controls == Pulses \cup Settings

\* Registers Sync writes.  They are ordinary holding registers: a client may
\* overwrite them, and the next Sync writes them again.
Telemetry == {"pcsStatus", "pcsFault", "bmsStatus", "bmsFault",
              "sysRunning", "sysFault", "sysStandby",
              "activePower", "reactivePower", "remoteStatus", "gridStatus",
              "chargeForbid", "dischargeForbid",
              "sysMaxCharge", "sysMaxDischarge"}

RatedUnits == Rated * Fine
MaxPower   == Rated * (Fine + 1)

ASSUME UnitAssumption ==
    /\ Cap \in Nat \ {0}  /\ InitEnergy \in 0..Cap
    /\ Rated \in Nat \ {0} /\ Fine \in Nat \ {0, 1}
    /\ Delays \subseteq Nat

ASSUME GridAssumption ==
    /\ TanAcos \in [50..1000 -> Nat]
    /\ Nominal \in Nat /\ VoltageSpan \in Nat
    /\ Deadband \in Nat /\ FullResponse \in Nat /\ Deadband < FullResponse
    /\ Resistance \in Nat /\ Reactance \in Nat /\ Base \in Nat \ {0}

\* A request is one FC6 or FC16 frame (or a CAN/XN/61850 command).  The two
\* power-command aliases are 27000 addresses apart: no frame spans both.
ASSUME RequestAssumption ==
    \A w \in Requests :
        /\ DOMAIN w \subseteq Controls \cup Telemetry
        /\ \A r \in DOMAIN w : w[r] \in Int
        /\ ~ {"powerCmd", "powerCmdAlias"} \subseteq DOMAIN w

VARIABLES
    ctl, tel,                       \* the registers
    running, hv, remote, gridTied,  \* pcsRunning, bmsHVClosed, ...
    fault,                          \* pcsDCUnderVoltFault
    p, q,                           \* actualPowerKW, actualReactiveKVAr
    volt,                           \* busVoltageV
    energy,                         \* currentEnergyKWh
    charged, discharged,            \* totalChargeKWh, totalDischargeKWh
    lastCmd, lastAlias              \* lastPowerCmdRaw, lastPowerCmdAliasRaw

vars == <<ctl, tel, running, hv, remote, gridTied, fault, p, q, volt,
          energy, charged, discharged, lastCmd, lastAlias>>

-----------------------------------------------------------------------------
Abs(x) == IF x < 0 THEN -x ELSE x
\* Bug: the upper limit is forgotten.
OpenClamp(x, l, h) == IF x < l THEN l ELSE x
Clamp(x, l, h) == IF x < l THEN l ELSE IF x > h THEN h ELSE x
Flag(b) == IF b THEN 1 ELSE 0
Pulse(r) == ctl[r] = 1

\* A tracked set-point: the command with its relative jitter.
Tracked(c) == {c * (Fine + j) : j \in {-1, 0, 1}}

\* Bug: the capacity the active power takes is not subtracted.
LimitedToRating(t, pw) ==
    {IF t > RatedUnits THEN RatedUnits ELSE IF t < -RatedUnits THEN -RatedUnits ELSE t}

\* limitReactiveByApparent: t cut down to the capacity the active power pw
\* leaves; the root of the headroom is rounded down.
Limited(t, pw) ==
    LET headroom == RatedUnits * RatedUnits - pw * pw
    IN  IF headroom <= 0 THEN {0}
        ELSE IF t * t <= headroom THEN {t}
        ELSE {IF t > 0 THEN l ELSE -l :
                l \in {r \in 0..RatedUnits : /\ r * r <= headroom
                                             /\ (r + 1) * (r + 1) > headroom}}

\* reactiveFromPowerFactor: register 0 means unity, |PF| lies in [0.05, 1].
FromPowerFactor(pw) ==
    LET pf   == IF ctl["powerFactorCmd"] = 0 THEN 1000 ELSE ctl["powerFactorCmd"]
        size == Abs(pw) * TanAcos[Clamp(Abs(pf), 50, 1000)]
    IN  IF pf < 0 THEN -size ELSE size

\* gridPhaseVoltage and reactiveFromVoltageDroop.
FromVoltageDroop(v) ==
    LET grid  == IF ctl["gridVoltageCmd"] # 0 THEN ctl["gridVoltageCmd"] ELSE v
        dev   == grid - Nominal
        size  == ((Clamp(Abs(dev), Deadband, FullResponse) - Deadband)
                    * RatedUnits) \div (FullResponse - Deadband)
    IN  IF dev < 0 THEN size ELSE -size

\* reactiveTargetKVAr: an unknown mode behaves as constant Q, and only
\* constant Q has a tracking error.
ReactiveTargets(pw, v) ==
    CASE ctl["reactiveMode"] = 1 -> {FromPowerFactor(pw)}
      [] ctl["reactiveMode"] = 2 -> {FromVoltageDroop(v)}
      [] OTHER -> Tracked(ctl["reactiveCmd"])

\* busVoltageTarget and relaxVoltage: one filter step goes some way from v
\* to the target, and none when no time has passed.
BusTarget(pw, qw) ==
    Nominal + Clamp((pw * Resistance + qw * Reactance) \div Base,
                    -VoltageSpan, VoltageSpan)
Relaxed(v, target, dt) ==
    IF dt = 0 THEN {v}
    ELSE IF v <= target THEN v..target ELSE target..v

-----------------------------------------------------------------------------
(***************************************************************************)
(* The register writes of Sync, from the state a tick ends in.             *)
(***************************************************************************)
SysMax(limit, setting) ==
    IF setting # 0 /\ setting < limit THEN setting ELSE limit

\* Bug: only the BMS fault reaches the system status.
BMSFaultOnly(pcsFaultReg, bmsFaultReg) == bmsFaultReg = 1

\* syncSystemStatus reads the two fault registers syncPCSStatus and
\* syncBMSStatus have just written.
SystemFault(pcsFaultReg, bmsFaultReg) == pcsFaultReg = 1 \/ bmsFaultReg = 1

Synced(run, closed, rem, tied, flt, pw, qw, en) ==
    LET pcsFault == Flag(flt)
        bmsFault == 0
        sysFault == SystemFault(pcsFault, bmsFault)
        active   == run /\ (pw # 0 \/ qw # 0) /\ ~sysFault
        flow     == IF pw < 0 THEN 3 ELSE 4
    IN  [pcsStatus       |-> IF ~run THEN 1 ELSE IF pw = 0 THEN 2 ELSE flow,
         pcsFault        |-> pcsFault,
         bmsStatus       |-> IF ~closed THEN 2 ELSE IF pw = 0 THEN 1 ELSE flow,
         bmsFault        |-> bmsFault,
         sysRunning      |-> Flag(active),
         sysFault        |-> Flag(sysFault),
         sysStandby      |-> Flag(~active /\ ~sysFault),
         activePower     |-> pw,
         reactivePower   |-> qw,
         remoteStatus    |-> Flag(rem),
         gridStatus      |-> Flag(~tied),
         chargeForbid    |-> Flag(en >= Cap),
         dischargeForbid |-> Flag(en <= 0),
         sysMaxCharge    |-> SysMax(IF en >= Cap THEN 0 ELSE Rated,
                                    ctl["maxChargeSetting"]),
         sysMaxDischarge |-> SysMax(IF en <= 0 THEN 0 ELSE Rated,
                                    ctl["maxDischargeSetting"])]

-----------------------------------------------------------------------------
Init ==
    /\ ctl = [r \in Controls |-> IF r = "remoteLocal" THEN 1 ELSE 0]
    /\ running = TRUE /\ hv = TRUE /\ remote = TRUE /\ gridTied = TRUE
    /\ fault = FALSE
    /\ p = 0 /\ q = 0
    /\ volt = Nominal
    /\ energy = InitEnergy
    /\ charged = 0 /\ discharged = 0
    /\ lastCmd = 0 /\ lastAlias = 0
    /\ tel = Synced(TRUE, TRUE, TRUE, TRUE, FALSE, 0, 0, InitEnergy)

-----------------------------------------------------------------------------
(***************************************************************************)
(* A client write: the bank is updated, then OnPCSWrite mirrors a power    *)
(* command into its alias and remembers it as seen.                        *)
(***************************************************************************)
Overlay(f, w) == [r \in DOMAIN f |-> IF r \in DOMAIN w THEN w[r] ELSE f[r]]

PowerWrite(w) ==
    IF "powerCmd" \in DOMAIN w THEN {w["powerCmd"]}
    ELSE IF "powerCmdAlias" \in DOMAIN w THEN {w["powerCmdAlias"]}
    ELSE {}

\* Bug: the other alias is not written.
Unmirrored(w, v) == Overlay(ctl, w)

Mirrored(w, v) ==
    [Overlay(ctl, w) EXCEPT !["powerCmd"] = v, !["powerCmdAlias"] = v]

Write(w) ==
    /\ tel' = Overlay(tel, w)
    /\ \/ /\ PowerWrite(w) = {}
          /\ ctl' = Overlay(ctl, w)
          /\ UNCHANGED <<lastCmd, lastAlias>>
       \/ \E v \in PowerWrite(w) :
             /\ ctl' = Mirrored(w, v)
             /\ lastCmd' = v
             /\ lastAlias' = v
    /\ UNCHANGED <<running, hv, remote, gridTied, fault, p, q, volt,
                   energy, charged, discharged>>

-----------------------------------------------------------------------------
(***************************************************************************)
(* One tick, in the order of Simulator.Tick.  Each definition gives the    *)
(* state a stage leaves from the registers and the state before the tick.  *)
(***************************************************************************)

\* ProcessBMSControls: the close pulse is handled before the open pulse.
HVAfter == (hv \/ Pulse("closeHV")) /\ ~Pulse("openHV")

\* Bug: startup is handled last.
StartupLast ==
    \/ running /\ ~Pulse("shutdown") /\ ~Pulse("estop")
    \/ Pulse("startup") /\ HVAfter

\* ProcessPCSControls: startup first, then shutdown, e-stop, fault reset.
RunningAfter ==
    /\ running \/ (Pulse("startup") /\ HVAfter)
    /\ ~Pulse("shutdown") /\ ~Pulse("estop")

\* Bug: a successful start clears the fault.
StartClearsFault ==
    /\ (fault /\ ~(Pulse("startup") /\ HVAfter)) \/ (Pulse("startup") /\ ~HVAfter)
    /\ ~Pulse("pcsReset")

FaultAfter ==
    (fault \/ (Pulse("startup") /\ ~HVAfter)) /\ ~Pulse("pcsReset")

Tripped == Pulse("openHV") \/ Pulse("shutdown") \/ Pulse("estop")
\* Bug: a stop leaves the output as it was.
PowerKept(x) == x
PowerAfter(x) == IF Tripped THEN 0 ELSE x

\* syncPowerCommandRegisters: the alias that changed since the last tick wins.
SelectedCommand ==
    IF ctl["powerCmdAlias"] # lastAlias /\ ctl["powerCmd"] = lastCmd
    THEN ctl["powerCmdAlias"] ELSE ctl["powerCmd"]

\* ProcessPowerCommand: the <<active, reactive>> outputs it may leave.  In
\* local mode the present output is kept, whatever the other flags say.
Outputs(run, rem, closed, v) ==
    IF run /\ rem /\ closed
    THEN UNION {UNION {{<<x, y>> : y \in Limited(t, x)} :
                            t \in ReactiveTargets(x, v)} :
                    x \in Tracked(Clamp(SelectedCommand, -Rated, Rated))}
    ELSE IF ~rem THEN {<<PowerAfter(p), PowerAfter(q)>>}
    ELSE {<<0, 0>>}

\* Bug: the limits are not tested before a step.
NeverBlocked(x) == x = 0

\* Bug: a store that is nearly full is not charged.
BlockedEarly(x) ==
    x = 0 \/ (x < 0 /\ energy >= Cap - 1) \/ (x > 0 /\ energy <= 0)

\* Bug: a store is full only when it is exactly full.
BlockedAtFull(x) ==
    x = 0 \/ (x < 0 /\ energy = Cap) \/ (x > 0 /\ energy <= 0)

\* UpdateEnergy for an output x over dt seconds.
Blocked(x) ==
    x = 0 \/ (x < 0 /\ energy >= Cap) \/ (x > 0 /\ energy <= 0)
Drained(x, dt) == IF Blocked(x) THEN energy ELSE energy - x * dt

\* Bug: a discharge is booked as a negative charge.
ChargeSigned(raw) == charged + (raw - energy)

\* A step that raises the stored energy is booked as charged, clipped or not.
ChargeBooked(raw) == IF raw > energy THEN charged + (raw - energy) ELSE charged

UpdateEnergy(x, dt) ==
    LET raw == Drained(x, dt)
    IN  /\ energy' = IF Blocked(x) THEN energy ELSE Clamp(raw, 0, Cap)
        /\ charged' = ChargeBooked(raw)
        /\ discharged' = IF raw < energy THEN discharged + (energy - raw)
                         ELSE discharged
        /\ p' = IF Blocked(x) \/ raw < 0 \/ raw > Cap THEN 0 ELSE x

\* Every pulse register is back to 0 and both aliases hold the command in force.
\* A pulse register that holds anything but 1 is left as it is.
Consumed(c) ==
    [r \in Controls |-> IF r \in Pulses /\ Pulse(r) THEN 0
                        ELSE IF r \in {"powerCmd", "powerCmdAlias"} THEN c
                        ELSE ctl[r]]

\* Bug: a running unit does not notice that its DC bus is dead.
NoBusCheck(run, closed) == FALSE

\* syncPCSStatus latches the fault of a unit that runs on a dead DC bus.
BusLost(run, closed) == run /\ ~closed

Tick ==
    \E dt \in Delays :
    \E v \in Relaxed(volt, BusTarget(PowerAfter(p), PowerAfter(q)), dt) :
        /\ hv' = HVAfter
        /\ remote' = (ctl["remoteLocal"] = 1)
        /\ gridTied' = (ctl["gridMode"] = 0)
        /\ running' = RunningAfter
        /\ volt' = v
        /\ lastCmd' = SelectedCommand
        /\ lastAlias' = SelectedCommand
        /\ ctl' = Consumed(SelectedCommand)
        /\ \E out \in Outputs(running', remote', hv', v) :
              /\ UpdateEnergy(out[1], dt)
              /\ q' = out[2]
        /\ fault' = (FaultAfter \/ BusLost(running', hv'))
        /\ tel' = Synced(running', hv', remote', gridTied', fault', p', q', energy')

Next == Tick \/ \E w \in Requests : Write(w)

Spec == Init /\ [][Next]_vars

\* The tick loop runs once a second for as long as the process lives; clients
\* need never write.
FairSpec == Spec /\ WF_vars(Tick)

-----------------------------------------------------------------------------
(***************************************************************************)
(* Properties.                                                             *)
(***************************************************************************)

\* Every variable has its type, and the store is never over-filled or
\* over-drained, however late a tick comes.
TypeOK ==
    /\ ctl \in [Controls -> Int]
    /\ tel \in [Telemetry -> Int]
    /\ running \in BOOLEAN /\ hv \in BOOLEAN /\ remote \in BOOLEAN
    /\ gridTied \in BOOLEAN /\ fault \in BOOLEAN
    /\ p \in Int /\ q \in Int /\ volt \in Int /\ energy \in 0..Cap
    /\ charged \in Nat /\ discharged \in Nat
    /\ lastCmd \in Int /\ lastAlias \in Int

\* A PCS that is stopped, or that has no DC bus behind it, exchanges neither
\* active nor reactive power - in local mode too, where ProcessPowerCommand
\* keeps whatever output it finds.
DeadUnitIsIdle == (~running \/ ~hv) => p = 0 /\ q = 0

\* A PCS running on an open DC contactor carries the latched undervoltage
\* fault, whatever pulses arrived together and even if a reset was among them.
DeadBusIsFaulted == running /\ ~hv => fault

\* Between ticks the two power-command aliases and the values
\* syncPowerCommandRegisters compares them with are all the same: the order
\* of two writes alone decides which command is in force.
AliasesAgree ==
    /\ ctl["powerCmd"] = ctl["powerCmdAlias"]
    /\ ctl["powerCmd"] = lastCmd
    /\ ctl["powerCmd"] = lastAlias

\* Active power exceeds the rating by the tracking jitter at most, and the
\* reactive output only uses apparent capacity the active power leaves.
CapacityRespected ==
    /\ Abs(p) <= MaxPower
    /\ q # 0 => p * p + q * q <= RatedUnits * RatedUnits

\* The undervoltage fault goes away only through a reset pulse, and never
\* while the PCS still runs on an open contactor.
FaultIsLatched ==
    [][fault /\ ~fault' => Pulse("pcsReset") /\ (running' => hv')]_vars

\* A tick that finds a stop or open pulse ends idle, even when a start or
\* close pulse, or a new power command, waits beside it and in local mode.
StopWins ==
    [][Tick => /\ Pulse("shutdown") \/ Pulse("estop") => ~running'
               /\ Pulse("openHV") => ~hv'
               /\ Tripped => p' = 0 /\ q' = 0]_vars

\* In local mode no remote set-point reaches the output: it stays as it was
\* or drops to zero.
LocalHolds ==
    [][Tick /\ ctl["remoteLocal"] # 1 => p' \in {0, p} /\ q' \in {0, q}]_vars

\* Under remote control power flows in the direction commanded, or not at all.
FollowsCommand ==
    [][Tick /\ ctl["remoteLocal"] = 1 /\ p' # 0
        => (p' > 0) = (ctl'["powerCmd"] > 0)]_vars

\* In no mode is a full store charged or an empty one discharged: the power is
\* stopped, and nothing is added to the lifetime total of that direction.
NoFlowPastLimit ==
    [][Tick => /\ energy >= Cap => p' >= 0 /\ charged' = charged
               /\ energy = 0 => p' <= 0 /\ discharged' = discharged]_vars

\* A tick decreases no lifetime total and moves one of them at most, and they
\* account for the change of the stored energy, except that a tick which cuts
\* the store to a limit books its whole step and stops the power.
LedgerBalances ==
    [][Tick =>
        LET in   == charged' - charged
            out  == discharged' - discharged
            gain == energy' - energy
        IN  /\ in >= 0 /\ out >= 0 /\ (in = 0 \/ out = 0)
            /\ \/ gain = in - out
               \/ energy' = Cap /\ p' = 0 /\ gain < in - out
               \/ energy' = 0 /\ p' = 0 /\ gain > in - out]_vars

\* After a tick exactly one of running, fault and standby is published, and
\* fault is published iff the latch is set, whatever a client wrote over the
\* telemetry registers in between.
SystemFlagsExact ==
    [][Tick => /\ tel'["sysRunning"] + tel'["sysFault"] + tel'["sysStandby"] = 1
               /\ tel'["sysFault"] = Flag(fault')]_vars

\* A unit that is left charging under remote control is full in the end.
ChargeCompletes ==
    <>[](running /\ hv /\ remote /\ ctl["remoteLocal"] = 1
         /\ ctl["powerCmd"] < 0) => <>(energy = Cap)

\* What battery_reactive.go:65 and README.md:366 say of the constant power
\* factor mode: without active power there is no reactive power.
NoReactiveWithoutActive ==
    [][Tick /\ ctl["reactiveMode"] = 1 /\ remote' /\ p' = 0 => q' = 0]_vars
=============================================================================
