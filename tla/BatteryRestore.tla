--------------------------- MODULE BatteryRestore ---------------------------
(***************************************************************************)
(* A battery unit from the start of the process on.  It is built with its  *)
(* configured state of charge, takes writes as soon as the servers listen, *)
(* and then gets back what the state file holds of it, before the first    *)
(* tick (cmd/virtual_bess/run.go, internal/simulator/state.go).            *)
(*                                                                         *)
(* The file may be that of a process with a larger configured capacity:    *)
(* Restore takes the energy as it is, so that the store may hold more than *)
(* it has room for, which never happens otherwise.                         *)
(***************************************************************************)
EXTENDS BatteryUnit

CONSTANT SavedStates   \* what state files may hold of this unit

ASSUME SavedAssumption ==
    SavedStates \subseteq [energy : Nat, charged : Nat, discharged : Nat]

VARIABLE restored      \* restoreState has run

restoreVars == <<vars, restored>>

RestoreInit == Init /\ restored = FALSE

\* Restore for this unit.  The session totals, which feed nothing, are left out,
\* and the registers show what is restored only after the next tick.
RestoreUnit(s) ==
    /\ energy' = s.energy
    /\ charged' = s.charged /\ discharged' = s.discharged
    /\ UNCHANGED <<ctl, tel, running, hv, remote, gridTied, fault, p, q, volt,
                   lastCmd, lastAlias>>

\* restoreState: there may be no file, or none that can be read, or no entry in
\* it for this unit.
Restore ==
    /\ ~restored /\ restored' = TRUE
    /\ UNCHANGED vars \/ \E s \in SavedStates : RestoreUnit(s)

RestoredTick == restored /\ Tick /\ UNCHANGED restored

ClientWrite(w) == Write(w) /\ UNCHANGED restored

RestoreNext == Restore \/ RestoredTick \/ \E w \in Requests : ClientWrite(w)

RestoreSpec == RestoreInit /\ [][RestoreNext]_restoreVars

-----------------------------------------------------------------------------
\* A store restored above a capacity that has shrunk is never charged; it gives
\* no power for as long as it stays above; the first step that would discharge
\* it brings it to the capacity or below, and from then on it stays there.
OverfullIsShed ==
    [][RestoredTick =>
        /\ energy > Cap =>
              /\ charged' = charged /\ p' >= 0
              /\ energy' > Cap => energy' = energy /\ p' = 0
        /\ energy' > Cap => energy > Cap]_restoreVars
=============================================================================
