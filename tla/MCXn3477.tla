------------------------------ MODULE MCXn3477 ------------------------------
(***************************************************************************)
(* An endpoint with two clusters beside a Modbus client.  The lifetime     *)
(* totals are bounded as in MCBatteryUnit.                                 *)
(***************************************************************************)
EXTENDS Xn3477, TLC

CONSTANT MaxTotal  \* bound on the energy booked in either lifetime total

MCXnNext == XnNext /\ charged' <= MaxTotal /\ discharged' <= MaxTotal
MCXnSpec == XnInit /\ [][MCXnNext]_xnVars

MCTanAcos == [m \in 50..1000 |-> 0]

\* A charge and a discharge, the three pulses an endpoint forwards, a pulse taken
\* back, and a client that overwrites a flag the endpoint copies.
MCRequests ==
    {r :> 1 : r \in {"bmsReset", "closeHV", "openHV", "chargeForbid"}}
    \cup {"powerCmd" :> v : v \in {-1, 1}} \cup {"openHV" :> 0}

Wr(slave, reg, value) == [slave |-> slave, reg |-> reg, value |-> value]

\* Open and then close in one frame, close, resets, a status overwritten, and a
\* frame for a slave that is not there.
MCXnRequests ==
    {<<Wr(BAU, "hvControl", 2), Wr(BAU, "hvControl", 1)>>,
     <<Wr(BAU, "hvControl", 1)>>,
     <<Wr(1, "faultReset", 1), Wr(BAU, "faultReset", 1)>>,
     <<Wr(BAU, "main", 3), Wr(2, "work", 1)>>,
     <<Wr(9, "hvControl", 2)>>}
=============================================================================
