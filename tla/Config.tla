------------------------------- MODULE Config -------------------------------
(***************************************************************************)
(* The configuration as far as start-up depends on it, what validate       *)
(* accepts (internal/simulator/config.go, config_xn3477.go), and the       *)
(* services run.go starts for it.                                          *)
(*                                                                         *)
(* A configuration is a record:                                            *)
(*   bats                 sequence of [pcs, bms, clusters]                 *)
(*   others               slave ids of PV units, meters, climate, fire     *)
(*   metered              the PCS ids that sub-meters refer to             *)
(*   modbus, rtu, port    addresses; rtu and the -port flag may be absent  *)
(*   xn                   sequence of [bms, at, slaves], BAU slave first   *)
(*   mms, mmsAt, iec      enabled, default address, sequence of            *)
(*                        [pcs, at, name]                                  *)
(*   can                  sequence of [at, bms], at being the interface    *)
(* An address is a [host, port]; absent is NoAddress.                      *)
(*                                                                         *)
(* Left out is what validate asks beyond this of single values and names   *)
(* (ranges, set-points, loads, meters, GOOSE identifiers) and that IEC     *)
(* 61850 devices need enabled: it refuses more, and starts nothing.        *)
(***************************************************************************)
EXTENDS Naturals, Sequences

NoAddress == [host |-> "none", port |-> 0]

Values(s) == {s[i] : i \in DOMAIN s}
IsSequence(s) == s \in Seq(Values(s))
Distinct(s) == \A i, j \in DOMAIN s : s[i] = s[j] => i = j
Field(s, f) == [i \in DOMAIN s |-> s[i][f]]

PCSIds(c) == Values(Field(c.bats, "pcs"))
BMSIds(c) == Values(Field(c.bats, "bms"))
SlaveIds(c) == Field(c.bats, "pcs") \o Field(c.bats, "bms") \o c.others

\* Each device has a slave id of its own, which keys its bank; a sub-meter
\* refers to PCS that exist.
UnitsAccepted(c) ==
    /\ c.bats # <<>>
    /\ 0 \notin Values(SlaveIds(c)) /\ Distinct(SlaveIds(c))
    /\ c.metered \subseteq PCSIds(c)

\* Bug: addresses are only compared with the Modbus address.
XnAcceptedLoosely(c) ==
    /\ Values(Field(c.xn, "bms")) \subseteq BMSIds(c)
    /\ Distinct(Field(c.xn, "bms"))
    /\ c.modbus \notin Values(Field(c.xn, "at"))

\* Every XN3477 endpoint has a battery and an address of its own, and as many
\* cluster slaves as the battery has clusters.
XnAccepted(c) ==
    /\ Values(Field(c.xn, "bms")) \subseteq BMSIds(c)
    /\ Distinct(Field(c.xn, "bms"))
    /\ Distinct(<<c.modbus>> \o Field(c.xn, "at"))
    /\ \A i \in DOMAIN c.xn :
          /\ 0 \notin Values(c.xn[i].slaves) /\ Distinct(c.xn[i].slaves)
          /\ \A k \in DOMAIN c.bats :
                c.bats[k].bms = c.xn[i].bms
                    => Len(c.xn[i].slaves) = c.bats[k].clusters + 1

\* Two publishers may share a battery but not an interface.
CanAccepted(c) ==
    /\ Distinct(Field(c.can, "at"))
    /\ Values(Field(c.can, "bms")) \subseteq BMSIds(c)

IecAccepted(c) ==
    c.mms => /\ Distinct(Field(c.iec, "name")) /\ Distinct(Field(c.iec, "at"))
             /\ Values(Field(c.iec, "pcs")) \subseteq PCSIds(c)

Accepted(c) == UnitsAccepted(c) /\ XnAccepted(c) /\ CanAccepted(c) /\ IecAccepted(c)

-----------------------------------------------------------------------------
\* The -port flag replaces the Modbus address after validation.
ModbusAt(c) == IF c.port = NoAddress THEN c.modbus ELSE c.port

\* effectiveIEC61850Devices: without devices, one endpoint for the first battery.
IecDevices(c) ==
    IF ~c.mms THEN <<>>
    ELSE IF c.iec # <<>> THEN c.iec
    ELSE <<[pcs |-> c.bats[1].pcs, at |-> c.mmsAt, name |-> "TEMPLATE"]>>

Service(kind, at, unit) == [kind |-> kind, at |-> at, unit |-> unit]
Services(kind, devices, unit) ==
    [i \in DOMAIN devices |-> Service(kind, devices[i].at, devices[i][unit])]

\* What startServices starts, in its order.  "sim" is NewSimulator.
Plan(c) ==
    <<Service("modbus", ModbusAt(c), 0)>>
    \o (IF c.rtu = NoAddress THEN <<>> ELSE <<Service("rtu", c.rtu, 0)>>)
    \o <<Service("sim", NoAddress, 0)>>
    \o Services("xn", c.xn, "bms")
    \o Services("iec", IecDevices(c), "pcs")
    \o Services("can", c.can, "bms")

\* The battery or bank a service is for exists: BatteryUnitByBMSSlaveID,
\* findIEC61850Battery, BankForSlave.
Resolves(c, s) ==
    CASE s.kind = "xn"  -> s.unit \in BMSIds(c)
      [] s.kind = "iec" -> s.unit \in PCSIds(c)
      [] s.kind = "can" -> s.unit \in Values(SlaveIds(c))
      [] OTHER -> TRUE

\* Two TCP listeners cannot share a port on one host, or on any host.
Clash(s, t) ==
    /\ {s.kind, t.kind} \subseteq {"modbus", "rtu", "xn", "iec"}
    /\ s.at.port = t.at.port
    /\ s.at.host = t.at.host \/ "any" \in {s.at.host, t.at.host}
=============================================================================
