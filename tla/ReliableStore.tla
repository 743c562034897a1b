--------------------------- MODULE ReliableStore ---------------------------
(***************************************************************************)
(* What the state file of virtual_bess promises, without saying how: a     *)
(* saved value that survives every end of the process and that one         *)
(* indivisible step replaces by the value counted at that moment.  A       *)
(* process begins with the saved value, or, when it cannot read it, from   *)
(* nothing and knowing so.                                                 *)
(***************************************************************************)
EXTENDS Naturals

CONSTANT MaxEnergy   \* bound on the energy counted

VARIABLES
    up,      \* a process counts
    live,    \* what it has counted
    saved,   \* what survives it
    lost     \* the process could not read what was saved

vars == <<up, live, saved, lost>>

Init == up = FALSE /\ live = 0 /\ saved = 0 /\ lost = FALSE

Boot ==
    /\ ~up /\ up' = TRUE
    /\ \/ live' = saved /\ lost' = FALSE
       \/ live' = 0 /\ lost' = TRUE
    /\ UNCHANGED saved

Count ==
    /\ up
    /\ live' \in live..MaxEnergy
    /\ UNCHANGED <<up, saved, lost>>

Save ==
    /\ up
    /\ saved' = live
    /\ UNCHANGED <<up, live, lost>>

Die ==
    /\ up /\ up' = FALSE
    /\ live' = 0 /\ lost' = FALSE
    /\ UNCHANGED saved

Next == Boot \/ Count \/ Save \/ Die

Spec == Init /\ [][Next]_vars
=============================================================================
