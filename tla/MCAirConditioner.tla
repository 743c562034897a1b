-------------------------- MODULE MCAirConditioner --------------------------
(***************************************************************************)
(* Small instances of AirConditioner.                                      *)
(***************************************************************************)
EXTENDS AirConditioner

\* Cold, mild and hot, around set-points between 1 and 4.
MildAmbients == {0, 5, 10}

\* Every register, with a differential the code refuses, inverted set-points,
\* and each command of either kind.
AllRequests ==
    {"cool"} \X {2, 4} \cup {"heat"} \X {1, 3} \cup {"coolDiff"} \X {0, 1, 2}
    \cup {"heatDiff"} \X {1} \cup {"control"} \X {0, 1, 2, 4}
=============================================================================
