----------------------------- MODULE MCStation -----------------------------
(***************************************************************************)
(* Two battery units, a PV inverter and a load behind a main meter, a      *)
(* second main meter that faces the other way, and two sub-meters that     *)
(* split the sources.                                                      *)
(***************************************************************************)
EXTENDS Station

CONSTANTS b1, b2, pv, load, main, mirror, pcs, rest

MCSources == {b1, b2, pv, load}
MCOutputs == [s \in MCSources |->
    CASE s \in {b1, b2} -> {<<-2, 0>>, <<0, 0>>, <<1, -1>>, <<0, 2>>}
      [] s = pv         -> {<<0, 0>>, <<3, 0>>}
      [] OTHER          -> {<<1, 0>>, <<2, 0>>}]
MCMeters == {main, mirror, pcs, rest}
MCCovers == [m \in MCMeters |->
    CASE m \in {main, mirror} -> MCSources
      [] m = pcs              -> {b1}
      [] OTHER                -> {b2, pv, load}]
MCOutflow == {mirror, rest}
MCVoltage == [m \in MCMeters |-> IF m = pcs THEN 400 ELSE 6400]
MCPTRatio == [m \in MCMeters |-> IF m = mirror THEN 100 ELSE 0]
=============================================================================
