----------------------------- MODULE MCIec61850 -----------------------------
(***************************************************************************)
(* A server beside a Modbus client.  The lifetime totals are bounded as in *)
(* MCBatteryUnit, and more tightly once the unit is off-grid or its        *)
(* contactor open, which the store's content has no part in; a tick of no  *)
(* length, which books nothing, is possible at the bound too, so that the  *)
(* bound stops neither ticks nor GOOSE.                                    *)
(***************************************************************************)
EXTENDS Iec61850, TLC

CONSTANT MaxTotal  \* bound on the energy booked in either lifetime total

OnGrid == gridTied /\ ctl["gridMode"] = 0 /\ hv /\ ctl["openHV"] = 0
Bound  == IF OnGrid THEN MaxTotal ELSE 1

MCIecNext == IecNext /\ charged' <= Bound' /\ discharged' <= Bound'
MCIecSpec == IecInit /\ [][MCIecNext]_iecVars /\ IecFairness

MCTanAcos == [m \in 50..1000 |-> 0]

Control(object, value) == [object |-> object, ok |-> TRUE, value |-> value]

\* A discharge, a reactive power, standby, off-grid, and controls
\* that are refused.
MCOperations ==
    {Control("APCS1", 1), Control("APCS2", 1),
     Control("SPCSO6", 1), Control("APCS10", 1),
     Control("SPCSO5", 0), Control("APCS10", 2),
     [object |-> "APCS9", ok |-> FALSE, value |-> 3]}

\* What those controls write, and an open contactor.
MCRequests ==
    {"powerCmd" :> v : v \in {-1, 0, 1}} \cup {"reactiveCmd" :> v : v \in {0, 1}}
    \cup {"gridMode" :> 1, "openHV" :> 1}

MCClockSteps == {-1, 1}
MCCommandRange == -1..1
=============================================================================
