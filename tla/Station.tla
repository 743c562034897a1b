------------------------------ MODULE Station ------------------------------
(***************************************************************************)
(* The meters of a station (meter.go) over the outputs of its battery      *)
(* units, PV inverters and loads, as Simulator.updateMeters feeds them at  *)
(* the end of every tick.  A main meter covers every source; a sub-meter   *)
(* the ones its configuration lists.                                       *)
(*                                                                         *)
(* The sources are a pair <<active, reactive>> each tick: batteries        *)
(* discharge and inject capacitive power with positive values, a PV        *)
(* inverter produces, a load consumes.  Energy is power times seconds,     *)
(* voltages are volts, deviations and per-unit impedances per mille.       *)
(***************************************************************************)
EXTENDS Integers, FiniteSets, Functions

CONSTANTS
    Batteries, PVs, Loads,   \* the sources
    Outputs,                 \* the outputs each of them may have
    Meters,
    Covers,                  \* the sources behind each meter
    Outflow,                 \* the meters with flow_direction "outflow"
    TanPhi, Scale,           \* loadTanPhi, as TanPhi / Scale
    Voltage,                 \* rated voltage of each meter
    PTRatio,                 \* configured pt_ratio, 0 if none
    Resistance, Reactance, Base, Response,   \* GridCouplingConfig
    MaxDeviation,            \* maxVoltageDeviationPU
    Delays,                  \* the seconds that may pass between two ticks
    MaxTicks                 \* bound: ticks of a behaviour

Sources == Batteries \cup PVs \cup Loads

ASSUME StationAssumption ==
    /\ IsFiniteSet(Sources) /\ IsFiniteSet(Meters)
    /\ Outputs \in [Sources -> SUBSET (Int \X Int)]
    /\ \A s \in PVs \cup Loads : \A o \in Outputs[s] : o[1] >= 0 /\ o[2] = 0
    /\ Covers \in [Meters -> SUBSET Sources] /\ Outflow \subseteq Meters
    /\ TanPhi \in Nat /\ Scale \in Nat \ {0}
    /\ Voltage \in [Meters -> Nat \ {0}] /\ PTRatio \in [Meters -> Nat]
    /\ Resistance \in Nat /\ Reactance \in Nat /\ Base \in Nat \ {0}
    /\ Response \in Nat \ {0} /\ MaxDeviation \in 0..1000
    /\ Delays \subseteq Nat /\ MaxTicks \in Nat

VARIABLES
    power,      \* gridPowerKW of each meter, in its display direction
    reactive,   \* reactiveKVar, in 1/Scale
    volt,       \* busVoltage
    forward,    \* forwardKWh
    reverse,    \* reverseKWh
    voltReg,    \* the published secondary phase voltage, U16 in 0.1 V
    ticks

vars == <<power, reactive, volt, forward, reverse, voltReg, ticks>>

-----------------------------------------------------------------------------
(***************************************************************************)
(* updateMeters: what each meter is fed, with the signs of a meter, where  *)
(* import from the grid and inductive power are positive.                  *)
(***************************************************************************)
Total(out, k, S) == SumFunctionOnSet([s \in Sources |-> out[s][k]], S)

\* Bug: an outflow meter does not reverse PV power.
PVUnturned(m, out) ==
    LET sign == IF m \in Outflow THEN -1 ELSE 1
    IN  [load |-> sign * Total(out, 1, Covers[m] \cap Loads),
         pcs  |-> -sign * Total(out, 1, Covers[m] \cap Batteries),
         pcsQ |-> -sign * Total(out, 2, Covers[m] \cap Batteries),
         pv   |-> Total(out, 1, Covers[m] \cap PVs)]

MeterInput(m, out) ==
    LET sign == IF m \in Outflow THEN -1 ELSE 1
    IN  [load |-> sign * Total(out, 1, Covers[m] \cap Loads),
         pcs  |-> -sign * Total(out, 1, Covers[m] \cap Batteries),
         pcsQ |-> -sign * Total(out, 2, Covers[m] \cap Batteries),
         pv   |-> sign * Total(out, 1, Covers[m] \cap PVs)]

GridPower(in)    == in.load + in.pcs - in.pv
GridReactive(in) == in.load * TanPhi + in.pcsQ * Scale

\* physicalImportKW, physicalImportKVAr.
PhysicalImport(m, x) == IF m \in Outflow THEN -x ELSE x

Clip(x, bound) == IF x > bound THEN bound ELSE IF x < -bound THEN -bound ELSE x

\* Quotient rounded towards zero, so that it is odd in x.
Quot(x, y) == IF x < 0 THEN -((-x) \div y) ELSE x \div y

\* busVoltageTarget, with injection positive.
VoltageTarget(m, injectP, injectQ) ==
    Voltage[m] + (Voltage[m] * Clip(Quot(injectP * Scale * Resistance + injectQ * Reactance,
                                         Base * Scale), MaxDeviation)) \div 1000

\* relaxVoltage
Relax(v, target, dt) == v + ((target - v) * dt) \div (Response + dt)

\* Bug: the ratio makes the rated voltage fit and leaves nothing for its rise.
NoHeadroom(m) == IF PTRatio[m] > 0 THEN PTRatio[m] ELSE (Voltage[m] + 6552) \div 6553

\* NewMeter: the smallest integer ratio that brings the rated voltage to
\* 6200 V, unless one is configured.
Ratio(m) == IF PTRatio[m] > 0 THEN PTRatio[m] ELSE (Voltage[m] + 6199) \div 6200

\* The voltage register: the jitter is left out, and the conversion to uint16
\* keeps the low 16 bits.
Word == 256 * 256
Published(m, v) == ((v * 10) \div Ratio(m)) % Word

Init ==
    \E out \in {o \in [Sources -> UNION {Outputs[s] : s \in Sources}] :
                   /\ \A b \in Batteries : o[b] = <<0, 0>>
                   /\ \A s \in PVs \cup Loads : o[s] \in Outputs[s]} :
        /\ power = [m \in Meters |-> GridPower(MeterInput(m, out))]
        /\ reactive = [m \in Meters |-> GridReactive(MeterInput(m, out))]
        /\ volt = Voltage
        /\ forward = [m \in Meters |-> 0] /\ reverse = [m \in Meters |-> 0]
        /\ voltReg = [m \in Meters |-> Published(m, Voltage[m])]
        /\ ticks = 0

-----------------------------------------------------------------------------
\* Meter.Update books the interval at its closing power, as import or export.
Imported(f, kWh) == IF kWh > 0 THEN f + kWh ELSE f
Exported(r, kWh) == IF kWh > 0 THEN r ELSE r - kWh

\* Tick: the sources take their outputs, then every meter is updated from
\* them and published.
Tick ==
    /\ ticks < MaxTicks
    /\ ticks' = ticks + 1
    /\ \E dt \in Delays :
       \E out \in {o \in [Sources -> UNION {Outputs[s] : s \in Sources}] :
                      \A s \in Sources : o[s] \in Outputs[s]} :
          /\ power' = [m \in Meters |-> GridPower(MeterInput(m, out))]
          /\ reactive' = [m \in Meters |-> GridReactive(MeterInput(m, out))]
          /\ volt' = [m \in Meters |->
                         Relax(volt[m],
                               VoltageTarget(m, -PhysicalImport(m, power'[m]),
                                                -PhysicalImport(m, reactive'[m])),
                               dt)]
          /\ forward' = [m \in Meters |-> Imported(forward[m], power'[m] * dt)]
          /\ reverse' = [m \in Meters |-> Exported(reverse[m], power'[m] * dt)]
          /\ voltReg' = [m \in Meters |-> Published(m, volt'[m])]

Next == Tick

Spec == Init /\ [][Next]_vars

-----------------------------------------------------------------------------
(***************************************************************************)
(* Properties.                                                             *)
(***************************************************************************)

\* The parts of a partition of the sources behind m, as sets of meters.
Splits(m) ==
    {P \in SUBSET Meters :
        /\ UNION {Covers[n] : n \in P} = Covers[m]
        /\ \A n, k \in P : n # k => Covers[n] \cap Covers[k] = {}}

Physical(f) == [m \in Meters |-> PhysicalImport(m, f[m])]
NetImport   == [m \in Meters |-> forward[m] - reverse[m]]

\* Wherever sub-meters split what a meter covers, their active power, their
\* reactive power and the net energy they have ever counted add up to those
\* of the meter, whichever way each of them faces.
SubMetersAddUp ==
    \A m \in Meters : \A P \in Splits(m) :
        \A f \in {power, reactive, NetImport} :
            Physical(f)[m] = SumFunctionOnSet(Physical(f), P)

\* A ratio that NewMeter has chosen leaves the secondary voltage readable in its
\* register for as long as the bus voltage is within the 5 % that the comment at
\* meter.go:65 reserves, whatever the rated voltage is.  Beyond, up to the guard
\* of busVoltageTarget, the register wraps.
VoltageReadable ==
    \A m \in Meters :
        PTRatio[m] = 0 /\ 100 * volt[m] <= 105 * Voltage[m]
            => voltReg[m] = (volt[m] * 10) \div Ratio(m)
=============================================================================
