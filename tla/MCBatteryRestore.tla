-------------------------- MODULE MCBatteryRestore --------------------------
(***************************************************************************)
(* A small instance of BatteryRestore.  The lifetime totals are bounded as *)
(* in MCBatteryUnit.                                                       *)
(***************************************************************************)
EXTENDS BatteryRestore, TLC

CONSTANT MaxTotal  \* bound on the energy booked in either lifetime total

MCRestoreNext == RestoreNext /\ charged' <= MaxTotal /\ discharged' <= MaxTotal
MCRestoreSpec == RestoreInit /\ [][MCRestoreNext]_restoreVars

\* tan(acos m / 1000), rounded down.
MCTanAcos == [m \in 50..1000 |-> IF m > 707 THEN 0 ELSE IF m > 447 THEN 1 ELSE 2]

Single(regs, values) == {r :> v : r \in regs, v \in values}

\* Both aliases, with commands beyond the rating, both modes of control, a
\* stop, one frame that writes a power command and two settings, the modes that
\* follow a power factor and the voltage, and a lagging power factor.
PowerRequests ==
    Single({"powerCmd"}, {-2, 1}) \cup Single({"powerCmdAlias"}, {0, 2})
    \cup Single({"remoteLocal"}, {0, 1}) \cup {"openHV" :> 1}
    \cup {("powerCmd" :> 1) @@ ("reactiveCmd" :> 1) @@ ("gridMode" :> 1)}
    \cup Single({"reactiveMode"}, {1, 2}) \cup {"powerFactorCmd" :> -600}

\* The state of a store that was larger, and one that is nearly empty.
MCSavedStates ==
    {[energy |-> 5, charged |-> 1, discharged |-> 0],
     [energy |-> 1, charged |-> 0, discharged |-> 1]}
=============================================================================
