--------------------------- MODULE MCBatteryUnit ---------------------------
(***************************************************************************)
(* Small instances of BatteryUnit for TLC.  The lifetime totals are the    *)
(* only unbounded state: a step may not take them past MaxTotal.           *)
(***************************************************************************)
EXTENDS BatteryUnit, TLC

CONSTANT MaxTotal  \* bound on the energy booked in either lifetime total

MCNext == Next /\ charged' <= MaxTotal /\ discharged' <= MaxTotal
MCSpec == Init /\ [][MCNext]_vars
MCFairSpec == MCSpec /\ WF_vars(Tick)

\* tan(acos m / 1000), rounded down.
MCTanAcos == [m \in 50..1000 |-> IF m > 707 THEN 0 ELSE IF m > 447 THEN 1 ELSE 2]

Single(regs, values) == {r :> v : r \in regs, v \in values}

\* Every pulse but the BMS reset, a fault flag a client overwrites, both
\* modes of control, a charge and a discharge.
PulseRequests ==
    Single(Pulses \ {"bmsReset"}, {1}) \cup {"pcsFault" :> 1}
    \cup Single({"remoteLocal"}, {0, 1}) \cup Single({"powerCmd"}, {-1, 1})

\* A constant power factor and a charge command.
PowerFactorRequests ==
    {"reactiveMode" :> 1, "powerFactorCmd" :> 600, "powerCmd" :> -1}
=============================================================================
