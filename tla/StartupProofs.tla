--------------------------- MODULE StartupProofs ---------------------------
(***************************************************************************)
(* Theorems about the life of the process, for any amount of energy, any   *)
(* number of crashes and any set of configurations.                        *)
(*                                                                         *)
(* First those about StateStore and its Spec: the file is whole, and the   *)
(* store is reliable.  Then those about Startup: the process as a whole    *)
(* lives the life that StateStore describes, so that what is proved of its *)
(* file holds of the program; and an accepted configuration never fails    *)
(* to start for a battery that is not there, nor for an address that two   *)
(* of its services compete for, unless it is one validate does not compare. *)
(***************************************************************************)
EXTENDS Startup, TLAPS

Saving == {"snapshot", "writing", "written"}

\* During a save the snapshot is what is counted, and the complete .tmp file
\* holds it.
SnapshotHeld ==
    /\ pc = "started" => counted = 0
    /\ pc \in Saving => snap = counted
    /\ pc = "written" => tmp = Full(snap)

\* A process that could read the state file has counted at least what the file
\* holds.
FileNotAhead ==
    pc \in {"serving"} \cup Saving /\ loaded = "ok" => file.energy <= counted

\* The inductive invariant.
StoreInv == TypeOK /\ FileWhole /\ SnapshotHeld /\ FileNotAhead

\* A snapshot of a possible energy is a possible content, and a whole one.
LEMMA FullContent ==
    ASSUME NEW e \in 0..MaxEnergy
    PROVE  Full(e) \in Contents /\ Full(e).kind = "full" /\ Full(e).energy = e
BY DEF Full, Contents

\* So are the two contents that hold nothing.
LEMMA EmptyContent ==
    /\ NoFile \in Contents /\ NoFile.kind = "none" /\ NoFile.energy = 0
    /\ Torn \in Contents /\ Torn.kind = "torn" /\ Torn.energy = 0
BY DEF NoFile, Torn, Contents

\* What a file that is not torn holds.
LEMMA WholeContent ==
    ASSUME NEW c \in Contents, c.kind # "torn"
    PROVE  /\ c.kind \in {"none", "full"} /\ c.energy \in 0..MaxEnergy
           /\ c.kind = "none" => c.energy = 0
<1>1. CASE c = NoFile
  BY <1>1, EmptyContent, StoreAssumption
<1>2. CASE c \in {Full(e) : e \in 0..MaxEnergy}
  BY <1>2, FullContent
<1> QED BY <1>1, <1>2, EmptyContent DEF Contents

LEMMA InitStore == Init => StoreInv
<1>1. 0 \in 0..MaxEnergy /\ 0 \in 0..MaxCrashes
  BY StoreAssumption
<1> QED
  BY <1>1, EmptyContent
  DEF Init, StoreInv, TypeOK, FileWhole, SnapshotHeld, FileNotAhead, Saving

\* Restoring brings back what the file holds, or leaves what was there.
LEMMA RestoreStore == ASSUME StoreInv, RestoreState PROVE StoreInv'
<1>1. file \in Contents /\ counted \in 0..MaxEnergy /\ file.kind # "torn"
  BY DEF StoreInv, TypeOK, FileWhole
<1>2. /\ file.kind \in {"none", "full"} /\ file.energy \in 0..MaxEnergy
      /\ file.kind = "none" => file.energy = 0
  BY <1>1, WholeContent
<1>3. /\ pc = "started" /\ pc' = "serving"
      /\ UNCHANGED <<snap, file, tmp, signalled, crashes>>
  BY DEF RestoreState
<1>4. \/ counted' = Restored(file) /\ loaded' = "ok"
      \/ loaded' = "failed" /\ counted' = counted
  BY <1>1 DEF RestoreState
<1>5. counted' \in 0..MaxEnergy /\ loaded' \in {"ok", "failed"}
  BY <1>1, <1>2, <1>4 DEF Restored
<1>6. loaded' = "ok" => file.energy <= counted'
  BY <1>1, <1>2, <1>4 DEF Restored
<1> QED
  BY <1>3, <1>5, <1>6
  DEF StoreInv, TypeOK, FileWhole, SnapshotHeld, FileNotAhead, Saving

\* What the loop counts stays ahead of the file, and it counts nothing while
\* it saves.
LEMMA TickStore == ASSUME StoreInv, Tick PROVE StoreInv'
<1>1. counted \in 0..MaxEnergy /\ counted' \in 0..MaxEnergy /\ counted <= counted'
  BY StoreAssumption DEF StoreInv, TypeOK, Tick
<1>2. /\ pc = "serving"
      /\ UNCHANGED <<pc, snap, file, tmp, loaded, signalled, crashes>>
  BY DEF Tick
<1>3. file.energy \in 0..MaxEnergy
  BY WholeContent DEF StoreInv, TypeOK, FileWhole
<1> QED
  BY <1>1, <1>2, <1>3
  DEF StoreInv, TypeOK, FileWhole, SnapshotHeld, FileNotAhead, Saving

\* A save: snapshot, write, rename.
LEMMA SaveStore == ASSUME StoreInv, Save PROVE StoreInv'
<1> USE DEF StoreInv, TypeOK, FileWhole, SnapshotHeld, FileNotAhead, Saving
<1>1. CASE Snapshot
  BY <1>1 DEF Snapshot
<1>2. CASE WriteBegin
  BY <1>2, EmptyContent DEF WriteBegin, AfterSave
<1>3. CASE WriteEnd
  BY <1>3, FullContent DEF WriteEnd
<1>4. CASE Rename
  BY <1>4, FullContent, EmptyContent DEF Rename, AfterSave
<1> QED BY <1>1, <1>2, <1>3, <1>4 DEF Save

\* Starting, signals, crashes.
LEMMA LifeStore ==
    ASSUME StoreInv, Start \/ FailStart \/ Signal \/ Crash \/ Rerun
    PROVE  StoreInv'
<1> USE DEF StoreInv, TypeOK, FileWhole, SnapshotHeld, FileNotAhead, Saving
<1>1. CASE Start
  <2>1. 0 \in 0..MaxEnergy
    BY StoreAssumption
  <2> QED BY <1>1, <2>1 DEF Start
<1>2. CASE Signal
  BY <1>2 DEF Signal
<1>3. CASE Crash
  BY <1>3, StoreAssumption DEF Crash
<1>4. CASE Rerun
  BY <1>4 DEF Rerun
<1>5. CASE FailStart
  BY <1>5 DEF FailStart
<1> QED BY <1>1, <1>2, <1>3, <1>4, <1>5

\* The invariant holds of every reachable state.
LEMMA StoreInvariant == Spec => []StoreInv
<1>1. StoreInv /\ [Next]_vars => StoreInv'
  <2> SUFFICES ASSUME StoreInv, [Next]_vars PROVE StoreInv'
    OBVIOUS
  <2>1. CASE RestoreState
    BY <2>1, RestoreStore
  <2>2. CASE Tick
    BY <2>2, TickStore
  <2>3. CASE Save
    BY <2>3, SaveStore
  <2>4. CASE Start \/ FailStart \/ Signal \/ Crash \/ Rerun
    BY <2>4, LifeStore
  <2>5. CASE UNCHANGED vars
    BY <2>5 DEF vars, StoreInv, TypeOK, FileWhole, SnapshotHeld, FileNotAhead
  <2> QED BY <2>1, <2>2, <2>3, <2>4, <2>5 DEF Next
<1> QED BY InitStore, <1>1, PTL DEF Spec

-----------------------------------------------------------------------------
\* Every variable keeps its type.
THEOREM TypeCorrect == Spec => []TypeOK
<1>1. StoreInv => TypeOK
  BY DEF StoreInv
<1> QED BY <1>1, StoreInvariant, PTL

\* Whenever the process is killed and whichever file operation fails, the state
\* file is absent or whole.
THEOREM AtomicSave == Spec => []FileWhole
<1>1. StoreInv => FileWhole
  BY DEF StoreInv
<1> QED BY <1>1, StoreInvariant, PTL

\* Only the rename changes the state file, to what its process has counted.
LEMMA FileChange ==
    ASSUME StoreInv, [Next]_vars, file' # file
    PROVE  Rename /\ file' = Full(counted) /\ counted' = counted
<1>1. Rename
  BY DEF Next, vars, Save, Start, FailStart, RestoreState, Tick, Signal, Snapshot,
         WriteBegin, WriteEnd, Crash, Rerun
<1> QED
  BY <1>1 DEF Rename, StoreInv, SnapshotHeld, Saving

\* The store implements the promise, action by action.
LEMMA PromiseInit == Init => Promise!Init
BY EmptyContent DEF Init, Promise!Init, Counting

LEMMA PromiseStart ==
    ASSUME StoreInv, Start \/ FailStart \/ Signal \/ Crash \/ Rerun
    PROVE  [Promise!Next]_(Promise!vars)
<1> USE DEF Counting, Promise!vars, Promise!Next
<1>1. CASE Start
  BY <1>1 DEF Start
<1>2. CASE FailStart
  BY <1>2 DEF FailStart
<1>3. CASE Signal
  BY <1>3 DEF Signal
<1>4. CASE Crash
  BY <1>4 DEF Crash, Promise!Die
<1>5. CASE Rerun
  BY <1>5 DEF Rerun, Promise!Die
<1> QED BY <1>1, <1>2, <1>3, <1>4, <1>5

LEMMA PromiseBoot == ASSUME StoreInv, RestoreState PROVE Promise!Boot
<1>1. file \in Contents /\ file.kind # "torn" /\ counted = 0 /\ pc = "started"
  BY DEF StoreInv, TypeOK, FileWhole, SnapshotHeld, RestoreState
<1>2. /\ file.kind \in {"none", "full"}
      /\ file.kind = "none" => file.energy = 0
  BY <1>1, WholeContent
<1> QED
  BY <1>1, <1>2 DEF RestoreState, Restored, Counting, Promise!Boot

LEMMA PromiseCount == ASSUME StoreInv, Tick PROVE Promise!Count
<1>1. counted \in 0..MaxEnergy /\ counted' \in counted..MaxEnergy
  BY StoreAssumption DEF StoreInv, TypeOK, Tick
<1> QED BY <1>1 DEF Tick, Counting, Promise!Count

LEMMA PromiseSave ==
    ASSUME StoreInv, Save PROVE [Promise!Next]_(Promise!vars)
<1> USE DEF Counting, Promise!vars, Promise!Next, AfterSave
<1>1. CASE Snapshot
  BY <1>1 DEF Snapshot
<1>2. CASE WriteBegin
  BY <1>2 DEF WriteBegin
<1>3. CASE WriteEnd
  BY <1>3 DEF WriteEnd
<1>4. CASE Rename
  <2>1. counted \in 0..MaxEnergy /\ tmp = Full(counted)
    BY <1>4 DEF Rename, StoreInv, TypeOK, SnapshotHeld, Saving
  <2>2. tmp.energy = counted
    BY <2>1, FullContent
  <2> QED BY <1>4, <2>2 DEF Rename, Promise!Save
<1> QED BY <1>1, <1>2, <1>3, <1>4 DEF Save

\* The file operations of a save and the restore implement a store that saves in
\* one step and hands every process the last save or the knowledge of its loss.
THEOREM StoreIsReliable == Spec => Reliable
<1>1. StoreInv /\ [Next]_vars => [Promise!Next]_(Promise!vars)
  <2> SUFFICES ASSUME StoreInv, [Next]_vars
               PROVE  [Promise!Next]_(Promise!vars)
    OBVIOUS
  <2>1. CASE Start \/ FailStart \/ Signal \/ Crash \/ Rerun
    BY <2>1, PromiseStart
  <2>2. CASE RestoreState
    BY <2>2, PromiseBoot DEF Promise!Next
  <2>3. CASE Tick
    BY <2>3, PromiseCount DEF Promise!Next
  <2>4. CASE Save
    BY <2>4, PromiseSave
  <2>5. CASE UNCHANGED vars
    BY <2>5 DEF vars, Promise!vars, Counting
  <2> QED BY <2>1, <2>2, <2>3, <2>4, <2>5 DEF Next
<1> QED
  BY PromiseInit, StoreInvariant, <1>1, PTL DEF Spec, Reliable, Promise!Spec

\* No save takes energy away that an earlier one recorded, unless the process
\* could not read the file.
THEOREM SavesGrow == Spec => NoRegress
<1>1. StoreInv /\ [Next]_vars
        => [file' # file => file'.energy >= file.energy \/ loaded = "failed"]_vars
  <2> SUFFICES ASSUME StoreInv, [Next]_vars, file' # file, loaded # "failed"
               PROVE  file'.energy >= file.energy
    OBVIOUS
  <2>1. pc = "written" /\ file' = Full(counted)
    BY FileChange DEF Rename
  <2>2. counted \in 0..MaxEnergy /\ file.energy \in 0..MaxEnergy
    BY WholeContent DEF StoreInv, TypeOK, FileWhole
  <2>3. loaded = "ok" /\ file.energy <= counted
    BY <2>1 DEF StoreInv, TypeOK, FileNotAhead, Saving
  <2> QED BY <2>1, <2>2, <2>3, FullContent
<1> QED BY <1>1, StoreInvariant, PTL DEF Spec, NoRegress

-----------------------------------------------------------------------------
(***************************************************************************)
(* The process around the store.                                           *)
(***************************************************************************)
\* Each step of the process is one of its life around the state file or leaves
\* that alone.
LEMMA StartupStep == StartupNext => [Next]_vars
<1> SUFFICES ASSUME StartupNext PROVE [Next]_vars
  OBVIOUS
<1>1. CASE \E c \in Configs : Refuse(c) \/ Launch(c)
  BY <1>1 DEF Refuse, Launch
<1>2. CASE StartOne \/ Build \/ StartFails \/ Restore
  BY <1>2 DEF StartOne, Build, StartFails, Restore, Next
<1>3. CASE Loop
  BY <1>3 DEF Loop, LoopTick, SyncProtocols, LoopSave, LoopSignal, BeginClose, Next
<1>4. CASE CloseOne \/ Exit
  BY <1>4 DEF CloseOne, Exit, Next
<1>5. CASE Kill \/ BusChanges
  BY <1>5 DEF Kill, BusChanges, Next
<1> QED BY <1>1, <1>2, <1>3, <1>4, <1>5 DEF StartupNext

\* The program around the store lives the store's life: every theorem about
\* StateStore's Spec is one about the program.
THEOREM ProcessKeepsStore == StartupSpec => StoreLife
<1>1. StartupInit => Init
  BY DEF StartupInit
<1>2. UNCHANGED startVars => UNCHANGED vars
  BY DEF startVars
<1> QED
  BY <1>1, <1>2, StartupStep, PTL DEF StartupSpec, StoreLife, Spec

\* Whatever is started, closed, killed or left half started around it, the
\* program's state file is whole, behaves as a store that saves in one step, and
\* loses no energy to a save unless it could not be read.
THEOREM ProcessIsReliable == StartupSpec => Reliable /\ []FileWhole /\ NoRegress
BY ProcessKeepsStore, StoreIsReliable, AtomicSave, SavesGrow, PTL DEF StoreLife

-----------------------------------------------------------------------------
Fixed(c) ==
    {Service("modbus", ModbusAt(c), 0), Service("sim", NoAddress, 0)}
        \cup (IF c.rtu = NoAddress THEN {} ELSE {Service("rtu", c.rtu, 0)})

\* Everything that may be started for a configuration.
Startable(c) ==
    Fixed(c) \cup Values(Services("xn", c.xn, "bms"))
             \cup Values(Services("iec", IecDevices(c), "pcs"))
             \cup Values(Services("can", c.can, "bms"))

LEMMA KindsDiffer ==
    ASSUME NEW kind, NEW at, NEW unit
    PROVE  /\ Service(kind, at, unit).kind = kind
           /\ Service(kind, at, unit).unit = unit
           /\ Service(kind, at, unit).at = at
BY DEF Service

\* The services of one kind, as a sequence.
LEMMA ServicesOf ==
    ASSUME NEW kind, NEW f, NEW ds, ds \in Seq(Values(ds))
    PROVE  /\ Services(kind, ds, f) \in Seq(Values(Services(kind, ds, f)))
           /\ \A s \in Values(Services(kind, ds, f)) :
                 s.kind = kind /\ \E i \in DOMAIN ds : s.unit = ds[i][f]
<1> DEFINE S == Services(kind, ds, f)
<1>1. DOMAIN S = 1..Len(ds) /\ Len(ds) \in Nat /\ DOMAIN ds = 1..Len(ds)
  BY DEF Services
<1>2. \A i \in 1..Len(ds) : S[i] = Service(kind, ds[i].at, ds[i][f])
  BY <1>1 DEF Services
<1>3. \A i \in 1..Len(ds) : S[i] \in Values(S)
  BY <1>1 DEF Values
<1>4. S = [i \in 1..Len(ds) |-> S[i]]
  BY <1>1 DEF Services
<1>5. S \in Seq(Values(S))
  BY <1>1, <1>3, <1>4
<1>6. \A s \in Values(S) : \E i \in 1..Len(ds) : s = Service(kind, ds[i].at, ds[i][f])
  BY <1>1, <1>2 DEF Values
<1> QED BY <1>1, <1>5, <1>6, KindsDiffer, SMTT(30)

\* The IEC 61850 devices of an accepted configuration are for its batteries.
LEMMA IecKnown ==
    ASSUME NEW c \in Configs, Accepted(c)
    PROVE  /\ IecDevices(c) \in Seq(Values(IecDevices(c)))
           /\ \A i \in DOMAIN IecDevices(c) : IecDevices(c)[i].pcs \in PCSIds(c)
<1>1. c.iec \in Seq(Values(c.iec)) /\ c.bats \in Seq(Values(c.bats))
  BY ConfigsAssumption DEF IsSequence
<1>2. CASE ~c.mms
  BY <1>2 DEF IecDevices, Values
<1>3. CASE c.mms /\ c.iec # <<>>
  <2>1. IecDevices(c) = c.iec
    BY <1>3 DEF IecDevices
  <2>2. Values(Field(c.iec, "pcs")) \subseteq PCSIds(c)
    BY <1>3 DEF Accepted, IecAccepted
  <2>3. \A i \in DOMAIN c.iec : c.iec[i].pcs \in Values(Field(c.iec, "pcs"))
    BY DEF Values, Field
  <2> QED BY <1>1, <2>1, <2>2, <2>3
<1>4. CASE c.mms /\ c.iec = <<>>
  <2> DEFINE d == [pcs |-> c.bats[1].pcs, at |-> c.mmsAt, name |-> "TEMPLATE"]
  <2>1. IecDevices(c) = <<d>>
    BY <1>4 DEF IecDevices
  <2>2. 1 \in DOMAIN c.bats
    BY <1>1 DEF Accepted, UnitsAccepted
  <2>3. d.pcs \in PCSIds(c)
    BY <2>2 DEF PCSIds, Values, Field
  <2>4. Values(<<d>>) = {d}
    BY DEF Values
  <2>5. <<d>> \in Seq({d}) /\ DOMAIN <<d>> = {1} /\ <<d>>[1] = d
    OBVIOUS
  <2> HIDE DEF d
  <2> QED BY <2>1, <2>3, <2>4, <2>5
<1> QED BY <1>2, <1>3, <1>4

\* The elements of a concatenation.
LEMMA Concatenated ==
    ASSUME NEW T, NEW s \in Seq(T), NEW t \in Seq(T)
    PROVE  /\ s \o t \in Seq(T)
           /\ \A i \in 1..Len(s) : i \in DOMAIN (s \o t) /\ (s \o t)[i] = s[i]
           /\ \A i \in 1..Len(t) :
                 Len(s) + i \in DOMAIN (s \o t) /\ (s \o t)[Len(s) + i] = t[i]
OBVIOUS

\* Every service of an accepted configuration finds its battery.
LEMMA AllResolve ==
    ASSUME NEW c \in Configs, Accepted(c), NEW s \in Startable(c)
    PROVE  Resolves(c, s)
<1>1. c.xn \in Seq(Values(c.xn)) /\ c.can \in Seq(Values(c.can))
  BY ConfigsAssumption DEF IsSequence
<1>2. CASE s \in Fixed(c)
  BY <1>2, KindsDiffer DEF Fixed, Resolves
<1>3. CASE s \in Values(Services("xn", c.xn, "bms"))
  <2>1. s.kind = "xn" /\ \E i \in DOMAIN c.xn : s.unit = c.xn[i].bms
    BY <1>1, <1>3, ServicesOf
  <2>2. s.unit \in BMSIds(c)
    BY <2>1 DEF Accepted, XnAccepted, Values, Field
  <2> QED BY <2>1, <2>2 DEF Resolves
<1>4. CASE s \in Values(Services("iec", IecDevices(c), "pcs"))
  <2>1. s.kind = "iec" /\ \E i \in DOMAIN IecDevices(c) : s.unit = IecDevices(c)[i].pcs
    BY <1>4, IecKnown, ServicesOf
  <2> QED BY <2>1, IecKnown DEF Resolves
<1>5. CASE s \in Values(Services("can", c.can, "bms"))
  <2>1. s.kind = "can" /\ \E i \in DOMAIN c.can : s.unit = c.can[i].bms
    BY <1>1, <1>5, ServicesOf
  <2>2. s.unit \in BMSIds(c)
    BY <2>1 DEF Accepted, CanAccepted, Values, Field
  <2>3. \A x \in BMSIds(c) : x \in Values(SlaveIds(c))
    <3> DEFINE n == Len(c.bats)
               P == Field(c.bats, "pcs")
               Q == Field(c.bats, "bms")
               T == Values(P) \cup Values(Q) \cup Values(c.others)
    <3>1. c.bats \in Seq(Values(c.bats)) /\ c.others \in Seq(Values(c.others))
      BY ConfigsAssumption DEF IsSequence
    <3>2. /\ n \in Nat /\ DOMAIN c.bats = 1..n
          /\ P = [i \in 1..n |-> c.bats[i].pcs] /\ Q = [i \in 1..n |-> c.bats[i].bms]
      BY <3>1 DEF Field
    <3>3. P \in Seq(T) /\ Q \in Seq(T) /\ c.others \in Seq(T)
      BY <3>1, <3>2 DEF Values
    <3>4. Len(P) = n /\ Len(Q) = n
      BY <3>2
    <3> HIDE DEF P, Q, n, T
    <3>5. /\ P \o Q \in Seq(T)
          /\ \A i \in 1..n : n + i \in DOMAIN (P \o Q) /\ (P \o Q)[n + i] = Q[i]
      BY <3>3, <3>4, Concatenated, SMTT(30)
    <3>6. \A i \in 1..Len(P \o Q) :
             /\ i \in DOMAIN ((P \o Q) \o c.others)
             /\ ((P \o Q) \o c.others)[i] = (P \o Q)[i]
      BY <3>3, <3>5, Concatenated, ZenonT(60)
    <3>7. \A i \in 1..n : \E k \in DOMAIN SlaveIds(c) : SlaveIds(c)[k] = Q[i]
      <4>1. SlaveIds(c) = (P \o Q) \o c.others
        BY DEF SlaveIds, P, Q
      <4>2. DOMAIN (P \o Q) = 1..Len(P \o Q)
        BY <3>5
      <4> QED BY <3>5, <3>6, <4>1, <4>2
    <3>8. \A x \in BMSIds(c) : \E i \in 1..n : x = Q[i]
      BY <3>2 DEF BMSIds, Values, Q
    <3> QED BY <3>7, <3>8 DEF Values
  <2> QED BY <2>1, <2>2, <2>3 DEF Resolves
<1> QED BY <1>2, <1>3, <1>4, <1>5 DEF Startable

\* The plan is made of what may be started.
LEMMA PlanStartable ==
    ASSUME NEW c \in Configs, Accepted(c)
    PROVE  Plan(c) \in Seq(Startable(c))
<1> DEFINE S == Startable(c)
           X == Services("xn", c.xn, "bms")
           I == Services("iec", IecDevices(c), "pcs")
           C == Services("can", c.can, "bms")
           M == <<Service("modbus", ModbusAt(c), 0)>>
           R == IF c.rtu = NoAddress THEN <<>> ELSE <<Service("rtu", c.rtu, 0)>>
           N == <<Service("sim", NoAddress, 0)>>
<1>1. c.xn \in Seq(Values(c.xn)) /\ c.can \in Seq(Values(c.can))
  BY ConfigsAssumption DEF IsSequence
<1>2. X \in Seq(Values(X)) /\ I \in Seq(Values(I)) /\ C \in Seq(Values(C))
  BY <1>1, IecKnown, ServicesOf
<1>3. Values(X) \subseteq S /\ Values(I) \subseteq S /\ Values(C) \subseteq S
  BY DEF Startable
<1>4. X \in Seq(S) /\ I \in Seq(S) /\ C \in Seq(S)
  <2> HIDE DEF S, X, I, C
  <2> QED BY <1>2, <1>3
<1>5. Fixed(c) \subseteq S
  BY DEF Startable
<1>6. M \in Seq(S) /\ R \in Seq(S) /\ N \in Seq(S)
  <2> HIDE DEF S
  <2> QED BY <1>5 DEF Fixed
<1> HIDE DEF S, X, I, C, M, R, N
<1>7. M \o R \o N \o X \o I \o C \in Seq(S)
  BY <1>4, <1>6
<1> QED BY <1>7 DEF Plan, S, X, I, C, M, R, N

-----------------------------------------------------------------------------
(***************************************************************************)
(* Addresses.  A plan is clear if no service of it takes an address away   *)
(* from a later one.                                                       *)
(***************************************************************************)
Clear(s) == \A i, j \in DOMAIN s : i < j => ~Clash(s[i], s[j])

ClearOf(s, t) == \A i \in DOMAIN s, j \in DOMAIN t : ~Clash(s[i], t[j])

\* The configurations for which validate compares every address that is used.
Compared(c) ==
    c.rtu = NoAddress /\ c.port = NoAddress /\ IecDevices(c) = <<>> /\ HostsAgree(c)

\* Only listeners clash.
Listens(s) == s.kind \in {"modbus", "rtu", "xn", "iec"}

LEMMA QuietNeverClashes ==
    ASSUME NEW s, NEW t, ~Listens(s) \/ ~Listens(t) PROVE ~Clash(s, t)
BY DEF Clash, Listens

LEMMA ClearConcatenation ==
    ASSUME NEW T, NEW s \in Seq(T), NEW t \in Seq(T),
           Clear(s), Clear(t), ClearOf(s, t)
    PROVE  Clear(s \o t)
<1> SUFFICES ASSUME NEW i \in DOMAIN (s \o t), NEW j \in DOMAIN (s \o t), i < j
             PROVE  ~Clash((s \o t)[i], (s \o t)[j])
  BY DEF Clear
<1> DEFINE m == Len(s)
           n == Len(t)
<1>1. m \in Nat /\ n \in Nat /\ DOMAIN s = 1..m /\ DOMAIN t = 1..n
  OBVIOUS
<1>2. DOMAIN (s \o t) = 1..(m + n)
  OBVIOUS
<1>3. /\ \A k \in 1..m : (s \o t)[k] = s[k]
      /\ \A k \in 1..(m + n) : k > m => (s \o t)[k] = t[k - m]
  OBVIOUS
<1> HIDE DEF m, n
<1>4. CASE j <= m
  <2>1. i \in 1..m /\ j \in 1..m
    BY <1>1, <1>2, <1>4
  <2> QED BY <1>1, <1>3, <2>1 DEF Clear
<1>5. CASE i <= m /\ j > m
  <2>1. i \in 1..m /\ j \in 1..(m + n) /\ j - m \in 1..n
    BY <1>1, <1>2, <1>5
  <2> QED BY <1>1, <1>3, <1>5, <2>1 DEF ClearOf
<1>6. CASE i > m /\ j > m
  <2>1. i \in 1..(m + n) /\ j \in 1..(m + n)
    BY <1>2
  <2>2. i - m \in 1..n /\ j - m \in 1..n /\ i - m < j - m
    BY <1>1, <1>6, <2>1
  <2>3. ~Clash(t[i - m], t[j - m])
    BY <1>1, <2>2 DEF Clear
  <2> QED BY <1>3, <1>6, <2>1, <2>3
<1> QED
  <2>1. i \in 1..(m + n) /\ j \in 1..(m + n)
    BY <1>2
  <2> QED BY <1>1, <1>4, <1>5, <1>6, <2>1

LEMMA EitherClear ==
    ASSUME NEW T, NEW s \in Seq(T), NEW t \in Seq(T), NEW u, ClearOf(s, u), ClearOf(t, u)
    PROVE  ClearOf(s \o t, u)
<1> SUFFICES ASSUME NEW i \in DOMAIN (s \o t), NEW j \in DOMAIN u
             PROVE  ~Clash((s \o t)[i], u[j])
  BY DEF ClearOf
<1> DEFINE m == Len(s)
           n == Len(t)
<1>1. m \in Nat /\ n \in Nat /\ DOMAIN s = 1..m /\ DOMAIN t = 1..n
  OBVIOUS
<1>2. i \in 1..(m + n)
  OBVIOUS
<1>3. /\ \A k \in 1..m : (s \o t)[k] = s[k]
      /\ \A k \in 1..(m + n) : k > m => (s \o t)[k] = t[k - m]
  OBVIOUS
<1> HIDE DEF m, n
<1>4. CASE i \in 1..m
  BY <1>1, <1>3, <1>4 DEF ClearOf
<1>5. CASE i > m
  <2>1. i - m \in 1..n
    BY <1>1, <1>2, <1>5
  <2> QED BY <1>1, <1>2, <1>3, <1>5, <2>1 DEF ClearOf
<1> QED BY <1>1, <1>2, <1>4, <1>5

\* No two of the addresses that validate compares are on one port.
LEMMA ComparedDiffer ==
    ASSUME NEW c, Accepted(c), Compared(c),
           NEW i \in DOMAIN Addressed(c), NEW j \in DOMAIN Addressed(c), i # j
    PROVE  Addressed(c)[i].port # Addressed(c)[j].port
BY DEF Accepted, XnAccepted, Compared, HostsAgree, Addressed, Distinct

\* The XN3477 endpoints neither compete among each other nor with Modbus.
LEMMA EndpointsClear ==
    ASSUME NEW c \in Configs, Accepted(c), Compared(c)
    PROVE  /\ Clear(Services("xn", c.xn, "bms"))
           /\ \A j \in DOMAIN c.xn :
                 ~Clash(Service("modbus", ModbusAt(c), 0), Services("xn", c.xn, "bms")[j])
<1> DEFINE X == Services("xn", c.xn, "bms")
           A == Field(c.xn, "at")
           n == Len(c.xn)
<1>1. c.xn \in Seq(Values(c.xn))
  BY ConfigsAssumption DEF IsSequence
<1>2. n \in Nat /\ DOMAIN c.xn = 1..n /\ DOMAIN X = 1..n
  BY <1>1 DEF Services
<1>3. A = [i \in 1..n |-> c.xn[i].at]
  BY <1>2 DEF Field
<1>4. Len(<<c.modbus>> \o A) = n + 1
      /\ (<<c.modbus>> \o A)[1] = c.modbus
      /\ \A i \in 1..n : (<<c.modbus>> \o A)[i + 1] = c.xn[i].at
  <2> DEFINE T == {c.modbus} \cup {c.xn[i].at : i \in 1..n}
  <2>1. A \in Seq(T) /\ <<c.modbus>> \in Seq(T) /\ Len(A) = n
    BY <1>2, <1>3
  <2>2. \A i \in 1..n : A[i] = c.xn[i].at
    BY <1>3
  <2> HIDE DEF T, A, n
  <2> QED BY <1>2, <2>1, <2>2
<1>5. /\ DOMAIN Addressed(c) = 1..(n + 1) /\ Addressed(c)[1] = c.modbus
      /\ \A i \in 1..n : Addressed(c)[i + 1] = c.xn[i].at
  <2>1. DOMAIN Addressed(c) = 1..Len(Addressed(c))
    <3>1. A \in Seq({c.xn[i].at : i \in 1..n})
      BY <1>2, <1>3
    <3> HIDE DEF A
    <3> QED BY <3>1 DEF Addressed, A
  <2> QED BY <1>4, <2>1 DEF Addressed
<1>6. \A i \in 1..n : X[i].at = c.xn[i].at
  BY <1>2, KindsDiffer DEF Services
<1>7. Service("modbus", ModbusAt(c), 0).at = c.modbus
  BY KindsDiffer DEF Compared, ModbusAt
<1> HIDE DEF X, A, n
<1>8. ASSUME NEW a \in 1..(n + 1), NEW b \in 1..(n + 1), a # b
       PROVE  Addressed(c)[a].port # Addressed(c)[b].port
  BY <1>5, <1>8, ComparedDiffer
<1>9. ASSUME NEW i \in 1..n, NEW j \in 1..n, i < j PROVE ~Clash(X[i], X[j])
  <2>1. i + 1 \in 1..(n + 1) /\ j + 1 \in 1..(n + 1) /\ i + 1 # j + 1
    BY <1>2, <1>9
  <2>2. Addressed(c)[i + 1].port # Addressed(c)[j + 1].port
    BY <1>8, <2>1
  <2>3. c.xn[i].at.port # c.xn[j].at.port
    BY <1>5, <2>2
  <2> QED BY <1>6, <2>3 DEF Clash
<1>10. ASSUME NEW j \in 1..n PROVE ~Clash(Service("modbus", ModbusAt(c), 0), X[j])
  <2>1. 1 \in 1..(n + 1) /\ j + 1 \in 1..(n + 1) /\ 1 # j + 1
    BY <1>2
  <2>2. Addressed(c)[1].port # Addressed(c)[j + 1].port
    BY <1>8, <2>1
  <2>3. c.modbus.port # c.xn[j].at.port
    BY <1>5, <2>2
  <2> QED BY <1>6, <1>7, <2>3 DEF Clash
<1> QED BY <1>2, <1>9, <1>10 DEF Clear, X

\* No two services of a configuration whose addresses validate compares clash.
LEMMA PlanClear ==
    ASSUME NEW c \in Configs, Accepted(c), Compared(c)
    PROVE  Clear(Plan(c))
<1> DEFINE S == Startable(c)
           X == Services("xn", c.xn, "bms")
           I == Services("iec", IecDevices(c), "pcs")
           C == Services("can", c.can, "bms")
           m == Service("modbus", ModbusAt(c), 0)
           n == Service("sim", NoAddress, 0)
           M == <<m>>
           N == <<n>>
<1>1. c.xn \in Seq(Values(c.xn)) /\ c.can \in Seq(Values(c.can))
  BY ConfigsAssumption DEF IsSequence
<1>2. X \in Seq(Values(X)) /\ C \in Seq(Values(C))
  BY <1>1, ServicesOf
<1>3. I = <<>>
  BY DEF Compared, Services
<1>4. m \in S /\ n \in S /\ Values(X) \subseteq S /\ Values(C) \subseteq S
  BY DEF Startable, Fixed
<1>5. X \in Seq(S) /\ C \in Seq(S) /\ M \in Seq(S) /\ N \in Seq(S)
  <2> HIDE DEF S, X, C, m, n
  <2> QED BY <1>2, <1>4
<1>6. ~Listens(n) /\ \A i \in DOMAIN C : ~Listens(C[i])
  <2>1. \A i \in DOMAIN C : C[i].kind = "can"
    BY KindsDiffer DEF Services
  <2> QED BY <2>1, KindsDiffer DEF Listens
<1>7. Clear(X) /\ \A j \in DOMAIN X : ~Clash(m, X[j])
  BY EndpointsClear DEF Services
<1>8. Plan(c) = M \o N \o X \o C
  <2>1. Plan(c) = M \o <<>> \o N \o X \o <<>> \o C
    BY <1>3 DEF Plan, Compared
  <2> HIDE DEF S, X, C, M, N
  <2>2. M \o <<>> = M
    BY <1>5
  <2>3. M \o N \o X \in Seq(S)
    BY <1>5
  <2>4. (M \o N \o X) \o <<>> = M \o N \o X
    BY <2>3
  <2> QED BY <2>1, <2>2, <2>4
<1> HIDE DEF S, X, I, C, m, n
<1>9. /\ Clear(M) /\ Len(M) = 1 /\ DOMAIN M = {1} /\ M[1] = m
      /\ Clear(N) /\ Len(N) = 1 /\ DOMAIN N = {1} /\ N[1] = n
  BY DEF Clear
<1>10. Clear(C)
  BY <1>6, QuietNeverClashes DEF Clear
<1> HIDE DEF M, N
<1>11. M \o N \in Seq(S) /\ Clear(M \o N)
  <2>1. ~Clash(m, n)
    BY <1>6, QuietNeverClashes
  <2>2. ClearOf(M, N)
    BY <1>9, <2>1 DEF ClearOf
  <2>3. M \o N \in Seq(S)
    BY <1>5
  <2> QED BY <1>5, <1>9, <2>2, <2>3, ClearConcatenation
<1>12. M \o N \o X \in Seq(S) /\ Clear(M \o N \o X)
  <2>1. \A j \in DOMAIN X : ~Clash(n, X[j])
    BY <1>6, QuietNeverClashes
  <2>2. ClearOf(M, X) /\ ClearOf(N, X)
    BY <1>7, <1>9, <2>1 DEF ClearOf
  <2>3. ClearOf(M \o N, X)
    BY <1>5, <2>2, EitherClear
  <2>4. M \o N \o X \in Seq(S)
    BY <1>5
  <2> QED BY <1>5, <1>7, <1>11, <2>3, <2>4, ClearConcatenation
<1>13. ClearOf(M \o N \o X, C)
  BY <1>6, QuietNeverClashes DEF ClearOf
<1> QED BY <1>5, <1>8, <1>10, <1>12, <1>13, ClearConcatenation

-----------------------------------------------------------------------------
\* What is still to start belongs to the accepted configuration, and no start
\* has failed for an unknown battery.
UnitsInv ==
    /\ UnitsAreKnown
    /\ cfg \in Configs
    /\ phase = "starting" => Accepted(cfg) /\ todo \in Seq(Startable(cfg))

\* What runs leaves the addresses free of what is still to start, so that no
\* start has failed for an address that validate compares.
AddressInv ==
    /\ phase = "off" => open = <<>>
    /\ phase = "starting" =>
          /\ open \in Seq(Startable(cfg))
          /\ Compared(cfg) => Clear(todo) /\ ClearOf(open, todo)
    /\ why = "clash" => ~Compared(cfg)

StartInv == UnitsInv /\ AddressInv

\* One service of the plan starts, or the simulator is built.
LEMMA StartKeeps ==
    ASSUME StartInv, phase = "starting", todo # <<>>, phase' = phase, cfg' = cfg,
           why' = why, todo' = Tail(todo), open' \in {open, Append(open, Head(todo))}
    PROVE  StartInv'
<1> DEFINE S == Startable(cfg)
<1>1. todo \in Seq(S) /\ open \in Seq(S)
  BY DEF StartInv, UnitsInv, AddressInv
<1> HIDE DEF S
<1>2. /\ Head(todo) \in S /\ todo' \in Seq(S) /\ Head(todo) = todo[1] /\ 1 \in DOMAIN todo
      /\ \A i \in DOMAIN todo' : i \in Nat \ {0} /\ i + 1 \in DOMAIN todo
                               /\ todo'[i] = todo[i + 1]
  BY <1>1
<1>3. /\ open' \in Seq(S)
      /\ \A i \in DOMAIN open' :
            (i \in DOMAIN open /\ open'[i] = open[i]) \/ open'[i] = todo[1]
  <2>1. CASE open' = open
    BY <1>1, <2>1
  <2>2. CASE open' = Append(open, Head(todo))
    <3> DEFINE x == Head(todo)
               k == Len(open)
    <3>1. x \in S /\ x = todo[1]
      BY <1>2
    <3> HIDE DEF x
    <3>2. /\ Append(open, x) \in Seq(S) /\ k \in Nat
          /\ DOMAIN open = 1..k /\ DOMAIN Append(open, x) = 1..(k + 1)
          /\ Append(open, x)[k + 1] = x
          /\ \A i \in 1..k : Append(open, x)[i] = open[i]
      BY <1>1, <3>1
    <3>3. open' = Append(open, x)
      BY <2>2 DEF x
    <3> HIDE DEF k
    <3>4. \A i \in 1..(k + 1) : i \in 1..k \/ i = k + 1
      BY <3>2
    <3> QED BY <3>1, <3>2, <3>3, <3>4
  <2> QED BY <2>1, <2>2
<1>4. UnitsInv'
  BY <1>2 DEF StartInv, UnitsInv, UnitsAreKnown, S
<1>5. ASSUME Compared(cfg) PROVE Clear(todo') /\ ClearOf(open', todo')
  <2>1. Clear(todo) /\ ClearOf(open, todo)
    BY <1>5 DEF StartInv, AddressInv
  <2>2. Clear(todo')
    <3> SUFFICES ASSUME NEW i \in DOMAIN todo', NEW j \in DOMAIN todo', i < j
                 PROVE  ~Clash(todo'[i], todo'[j])
      BY DEF Clear
    <3>1. i + 1 < j + 1
      BY <1>2
    <3> QED BY <1>2, <2>1, <3>1 DEF Clear
  <2>3. ASSUME NEW i \in DOMAIN open', NEW j \in DOMAIN todo'
        PROVE  ~Clash(open'[i], todo'[j])
    <3>1. CASE i \in DOMAIN open /\ open'[i] = open[i]
      BY <1>2, <2>1, <3>1 DEF ClearOf
    <3>2. CASE open'[i] = todo[1]
      <4>1. 1 < j + 1
        BY <1>2
      <4> QED BY <1>2, <2>1, <3>2, <4>1 DEF Clear
    <3> QED BY <1>3, <3>1, <3>2
  <2> QED BY <2>2, <2>3 DEF ClearOf
<1>6. AddressInv'
  BY <1>3, <1>5 DEF StartInv, AddressInv, S
<1> QED BY <1>4, <1>6 DEF StartInv

LEMMA StartInvNext == ASSUME StartInv, [StartupNext]_startVars PROVE StartInv'
<1> USE DEF StartInv
<1>1. ASSUME NEW c \in Configs, Refuse(c) PROVE StartInv'
  BY <1>1 DEF Refuse, UnitsInv, AddressInv, UnitsAreKnown
<1>2. ASSUME NEW c \in Configs, Launch(c) PROVE StartInv'
  <2>1. Accepted(c) /\ Plan(c) \in Seq(Startable(c)) /\ (Compared(c) => Clear(Plan(c)))
    BY <1>2, PlanStartable, PlanClear DEF Launch
  <2>2. /\ phase' = "starting" /\ todo' = Plan(c) /\ open' = <<>> /\ cfg' = c
        /\ why' = "none"
    BY <1>2 DEF Launch, AddressInv
  <2>3. UnitsInv'
    BY <2>1, <2>2 DEF UnitsInv, UnitsAreKnown
  <2>4. AddressInv'
    BY <2>1, <2>2 DEF AddressInv, ClearOf
  <2> QED BY <2>3, <2>4
<1>3. CASE StartOne \/ Build
  BY <1>3, StartKeeps DEF StartOne, Build
<1>4. CASE StartFails
  <2>1. /\ phase = "starting" /\ todo # <<>> /\ Accepted(cfg) /\ cfg \in Configs
        /\ todo \in Seq(Startable(cfg))
    BY <1>4 DEF StartFails, UnitsInv
  <2>2. Head(todo) \in Startable(cfg) /\ 1 \in DOMAIN todo /\ Head(todo) = todo[1]
    BY <2>1
  <2>3. Resolves(cfg, Head(todo))
    BY <2>1, <2>2, AllResolve
  <2>4. Compared(cfg) => ~Clashes(Head(todo))
    BY <2>1, <2>2 DEF AddressInv, ClearOf, Clashes
  <2>5. why' = IF Clashes(Head(todo)) THEN "clash" ELSE "environment"
    BY <1>4, <2>3 DEF StartFails
  <2>6. phase' = "closing" /\ cfg' = cfg
    BY <1>4 DEF StartFails
  <2> QED BY <2>1, <2>4, <2>5, <2>6 DEF UnitsInv, AddressInv, UnitsAreKnown
<1>5. CASE Restore \/ Kill \/ CloseOne \/ Exit
  BY <1>5 DEF Restore, Kill, CloseOne, Exit, shown, UnitsInv, AddressInv, UnitsAreKnown
<1>6. CASE Loop
  BY <1>6 DEF Loop, LoopTick, SyncProtocols, LoopSave, LoopSignal, BeginClose,
              services, shown, UnitsInv, AddressInv, UnitsAreKnown
<1>7. CASE BusChanges \/ UNCHANGED startVars
  BY <1>7 DEF BusChanges, startVars, services, UnitsInv, AddressInv, UnitsAreKnown
<1> QED BY <1>1, <1>2, <1>3, <1>4, <1>5, <1>6, <1>7 DEF StartupNext

LEMMA StartInvariant == StartupSpec => []StartInv
<1>1. StartupInit => StartInv
  BY DEF StartupInit, StartInv, UnitsInv, AddressInv, UnitsAreKnown
<1> QED BY <1>1, StartInvNext, PTL DEF StartupSpec

\* A start can fail for an unknown battery in no accepted configuration.
THEOREM AcceptedUnitsKnown == StartupSpec => []UnitsAreKnown
<1>1. StartInv => UnitsAreKnown
  BY DEF StartInv, UnitsInv
<1> QED BY <1>1, StartInvariant, PTL

\* What validate accepts starts: no two services compete for an address, unless
\* one of the addresses is among those that it does not compare.
THEOREM AcceptedConfigurationsStart == StartupSpec => []AcceptedStarts
<1>1. StartInv => AcceptedStarts
  BY DEF StartInv, UnitsInv, AddressInv, AcceptedStarts, Compared
<1> QED BY <1>1, StartInvariant, PTL

-----------------------------------------------------------------------------
\* A process that has been built and has not restored shows nothing yet.
Fresh == pc = "started" => reg = 0 /\ copy = 0 /\ ~ticked /\ synced

\* From the first tick on, the banks and the copies show what has been counted,
\* and until then nothing: for every configuration and any number of restarts.
THEOREM ShownIsTrue == StartupSpec => []ShownIsCounted
<1> DEFINE ShownInv == Fresh /\ ShownIsCounted
<1>1. StartupInit => ShownInv
  BY DEF StartupInit, Init, Fresh, ShownIsCounted
<1>2. ShownInv /\ [StartupNext]_startVars => ShownInv'
  <2> SUFFICES ASSUME ShownInv, [StartupNext]_startVars PROVE ShownInv'
    OBVIOUS
  <2> USE DEF Fresh, ShownIsCounted
  <2>1. CASE \E c \in Configs : Refuse(c) \/ Launch(c)
    BY <2>1 DEF Refuse, Launch, vars, shown
  <2>2. CASE StartOne \/ StartFails
    BY <2>2 DEF StartOne, StartFails, vars, shown
  <2>3. CASE Build
    BY <2>3 DEF Build, Start
  <2>4. CASE Restore
    BY <2>4 DEF Restore, RestoreState, shown
  <2>5. CASE LoopTick
    BY <2>5 DEF LoopTick, Tick
  <2>6. CASE SyncProtocols
    BY <2>6 DEF SyncProtocols, vars, services
  <2>7. CASE LoopSave
    <3>1. UNCHANGED counted /\ pc' # "started"
      BY <2>7 DEF LoopSave, Save, Snapshot, WriteBegin, WriteEnd, Rename, AfterSave
    <3> QED BY <2>7, <3>1 DEF LoopSave, services, shown
  <2>8. CASE LoopSignal \/ BeginClose
    BY <2>8 DEF LoopSignal, Signal, BeginClose, vars, services, shown
  <2>9. CASE CloseOne \/ Exit \/ Kill
    BY <2>9 DEF CloseOne, Exit, Kill, Rerun, FailStart, Crash, vars, shown
  <2>10. CASE BusChanges \/ UNCHANGED startVars
    BY <2>10 DEF BusChanges, startVars, vars, services, shown
  <2> QED
    BY <2>1, <2>2, <2>3, <2>4, <2>5, <2>6, <2>7, <2>8, <2>9, <2>10
    DEF StartupNext, Loop
<1>3. ShownInv => ShownIsCounted
  OBVIOUS
<1> QED BY <1>1, <1>2, <1>3, PTL DEF StartupSpec
=============================================================================
