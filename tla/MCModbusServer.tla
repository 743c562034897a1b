--------------------------- MODULE MCModbusServer ---------------------------
(***************************************************************************)
(* One MBAP client that pipelines and one RTU client.  An "odd" frame over *)
(* RTU is answered like a "read", without Simulator.mu.                    *)
(***************************************************************************)
EXTENDS ModbusServer

CONSTANTS c1, c2

MCConns     == {c1, c2}
MCTransport == [c \in MCConns |-> IF c = c1 THEN "tcp" ELSE "rtu"]
MCMaxFrames == [c \in MCConns |-> IF c = c1 THEN 3 ELSE 1]
MCSends     == [c \in MCConns |-> IF c = c1 THEN {"stop", "odd", "empty", "short"}
                                  ELSE {"write", "odd", "garbled"}]
=============================================================================
