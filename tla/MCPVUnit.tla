------------------------------ MODULE MCPVUnit ------------------------------
(***************************************************************************)
(* Small instances of PVUnit.  The lifetime counter is the only unbounded  *)
(* state: a step may not take it past MaxTotal.                            *)
(***************************************************************************)
EXTENDS PVUnit

CONSTANT MaxTotal  \* bound on the lifetime energy

MCNext == Next /\ total' <= MaxTotal
MCSpec == Init /\ [][MCNext]_vars

\* Two days of one month, the next month, and the next year.
Calendar ==
    {[day |-> 1, month |-> 1, year |-> 1], [day |-> 2, month |-> 1, year |-> 1],
     [day |-> 3, month |-> 2, year |-> 1], [day |-> 4, month |-> 3, year |-> 2]}

\* Either limit within and beyond its greatest value, and both pulses.
LimitRequests ==
    {"percent"} \X {500, 2000} \cup {"fixed"} \X {1, 9}
    \cup {"startup", "shutdown"} \X {1}
=============================================================================
