----------------------------- MODULE StateStore -----------------------------
(***************************************************************************)
(* The life of the process around its state file (cmd/virtual_bess/run.go, *)
(* internal/simulator/state.go): start, restore, the loop that ticks and   *)
(* saves, the save at a signal, and crashes anywhere.  The persistent      *)
(* state is abstracted to the lifetime energy it has counted.              *)
(*                                                                         *)
(* Snapshot and Restore hold Simulator.mu and are one step each.  A save   *)
(* is three: the snapshot, the write of the .tmp file, which other eyes    *)
(* and a crash may find half done, and the rename.  A crash kills the      *)
(* process, not the operating system; file operations may fail.            *)
(***************************************************************************)
EXTENDS Naturals

CONSTANTS
    MaxEnergy,     \* bound on the energy counted
    MaxCrashes     \* bound on the number of crashes

ASSUME StoreAssumption == MaxEnergy \in Nat /\ MaxCrashes \in Nat

\* What a path may hold: nothing, part of a snapshot, or all of one.
NoFile  == [kind |-> "none", energy |-> 0]
Torn    == [kind |-> "torn", energy |-> 0]
Full(e) == [kind |-> "full", energy |-> e]
Contents == {NoFile, Torn} \cup {Full(e) : e \in 0..MaxEnergy}

VARIABLES
    pc,          \* "down", "started", "serving", "snapshot", "writing",
                 \* "written", "stopped"
    counted,     \* the energy the simulator has counted
    snap,        \* the snapshot being saved
    file, tmp,   \* the state file and its .tmp
    loaded,      \* "ok", or "failed" when the file could not be read
    signalled,   \* the process handles a signal
    crashes

vars == <<pc, counted, snap, file, tmp, loaded, signalled, crashes>>

-----------------------------------------------------------------------------
Init ==
    /\ pc = "down" /\ counted = 0 /\ snap = 0
    /\ file = NoFile /\ tmp = NoFile
    /\ loaded = "ok" /\ signalled = FALSE /\ crashes = 0

\* startServices: NewSimulator builds every unit anew.
Start ==
    /\ pc = "down"
    /\ pc' = "started"
    /\ counted' = 0
    /\ loaded' = "ok" /\ signalled' = FALSE
    /\ UNCHANGED <<snap, file, tmp, crashes>>

\* startServices: a service that does not start ends the process.
FailStart ==
    /\ pc = "started"
    /\ pc' = "down"
    /\ UNCHANGED <<counted, snap, file, tmp, loaded, signalled, crashes>>

\* Bug: a file that can be read is ignored.
RestoredNothing(content) == counted

\* restoreState: a missing file restores nothing, and neither does one that
\* cannot be read or decoded, which is only logged.
Restored(content) == IF content.kind = "full" THEN content.energy ELSE counted

RestoreState ==
    /\ pc = "started"
    /\ pc' = "serving"
    /\ \/ /\ counted' = Restored(file)
          /\ loaded' = IF file.kind = "torn" THEN "failed" ELSE "ok"
       \/ /\ file # NoFile                 \* the read fails
          /\ loaded' = "failed" /\ counted' = counted
    /\ UNCHANGED <<snap, file, tmp, signalled, crashes>>

\* Simulator.Tick, within the bound.
Tick ==
    /\ pc = "serving" /\ ~signalled /\ counted < MaxEnergy
    /\ counted' \in {counted, counted + 1}
    /\ UNCHANGED <<pc, snap, file, tmp, loaded, signalled, crashes>>

\* serveLoop receives SIGINT or SIGTERM between two steps of its loop.
Signal ==
    /\ pc = "serving" /\ ~signalled
    /\ signalled' = TRUE
    /\ UNCHANGED <<pc, counted, snap, file, tmp, loaded, crashes>>

\* saveState by the save ticker or for the signal: SnapshotLocked.
Snapshot ==
    /\ pc = "serving"
    /\ snap' = counted
    /\ pc' = "snapshot"
    /\ UNCHANGED <<counted, file, tmp, loaded, signalled, crashes>>

\* Bug: the loop goes on after the save for a signal.
LoopsOn == "serving"

\* Back to the loop, or out of it after a signal.
AfterSave == IF signalled THEN "stopped" ELSE "serving"

\* Bug: the state file itself is written in place.
WriteInPlace ==
    /\ pc = "snapshot"
    /\ file' = Torn
    /\ pc' \in {"writing", AfterSave}
    /\ UNCHANGED <<counted, snap, tmp, loaded, signalled, crashes>>

\* SaveState encodes the snapshot and makes the directory; os.WriteFile then
\* truncates the .tmp file and writes it.  Each may fail, the write halfway.
WriteBegin ==
    /\ pc = "snapshot"
    /\ \/ tmp' = Torn /\ pc' \in {"writing", AfterSave}
       \/ tmp' = tmp /\ pc' = AfterSave
    /\ UNCHANGED <<counted, snap, file, loaded, signalled, crashes>>

WriteEnd ==
    /\ pc = "writing"
    /\ tmp' = Full(snap)
    /\ pc' = "written"
    /\ UNCHANGED <<counted, snap, file, loaded, signalled, crashes>>

\* os.Rename; when it fails the .tmp file stays behind.
Rename ==
    /\ pc = "written"
    /\ pc' = AfterSave
    /\ \/ file' = tmp /\ tmp' = NoFile
       \/ UNCHANGED <<file, tmp>>
    /\ UNCHANGED <<counted, snap, loaded, signalled, crashes>>

\* The process is killed.
Crash ==
    /\ pc \notin {"down", "stopped"} /\ crashes < MaxCrashes
    /\ pc' = "down"
    /\ crashes' = crashes + 1
    /\ UNCHANGED <<counted, snap, file, tmp, loaded, signalled>>

\* A stopped process is started again.
Rerun ==
    /\ pc = "stopped"
    /\ pc' = "down"
    /\ UNCHANGED <<counted, snap, file, tmp, loaded, signalled, crashes>>

Save == Snapshot \/ WriteBegin \/ WriteEnd \/ Rename

Next ==
    \/ Start \/ FailStart \/ RestoreState
    \/ Tick \/ Signal \/ Save
    \/ Crash \/ Rerun

Spec == Init /\ [][Next]_vars

-----------------------------------------------------------------------------
\* Every variable has its type, and only a whole file holds any energy.
TypeOK ==
    /\ pc \in {"down", "started", "serving", "snapshot", "writing", "written",
               "stopped"}
    /\ counted \in 0..MaxEnergy /\ snap \in 0..MaxEnergy
    /\ file \in Contents /\ tmp \in Contents
    /\ loaded \in {"ok", "failed"} /\ signalled \in BOOLEAN
    /\ crashes \in 0..MaxCrashes

\* The state file is always absent or whole, wherever the process is killed and
\* whichever file operation fails (state.go:63, "atomic write").
FileWhole == file.kind # "torn"

\* A process that has come past its start counts; its process image, its .tmp
\* file and the steps of a save are nobody's business.
Counting == {"serving", "snapshot", "writing", "written", "stopped"}
Promise == INSTANCE ReliableStore
    WITH up    <- pc \in Counting,
         live  <- IF pc \in Counting THEN counted ELSE 0,
         saved <- file.energy,
         lost  <- pc \in Counting /\ loaded = "failed"

\* SaveState and LoadState keep the promise of a store that saves in one step
\* and forgets nothing: what is saved is the energy counted when the file is
\* replaced, and a process begins with it unless it could not read it.
Reliable == Promise!Spec

\* What has been saved is never replaced by less, except by a process that
\* could not read it.
NoRegress ==
    [][file' # file => file'.energy >= file.energy \/ loaded = "failed"]_vars
=============================================================================
