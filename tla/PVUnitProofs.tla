---------------------------- MODULE PVUnitProofs ----------------------------
(***************************************************************************)
(* Theorems about PVUnit, for every rating, calendar, weather, tick delay  *)
(* and set of client requests.                                             *)
(***************************************************************************)
EXTENDS PVUnit, TLAPS

-----------------------------------------------------------------------------
(***************************************************************************)
(* The invariant.  The running counters nest only because those in the     *)
(* state file do, which a restart brings back; the output keeps to the     *)
(* rating only because a limit is clamped before it is remembered; and the *)
(* change detection of ProcessControls is silent only because the limit    *)
(* registers never differ from what is remembered.                         *)
(***************************************************************************)
SavedPeriodsNest ==
    /\ saved.daily <= saved.monthly
    /\ saved.monthly <= saved.yearly /\ saved.yearly <= saved.total

LimitsCoherent ==
    /\ reg["percent"] = lastPercent /\ lastPercent <= 1000
    /\ reg["fixed"] = lastFixed /\ lastFixed <= MaxFixedRaw

PVInv == TypeOK /\ PeriodsNest /\ SavedPeriodsNest /\ LimitsCoherent

\* The largest fixed limit respects the rating.
LEMMA FixedBound == MaxFixedRaw \in Nat /\ MaxFixedRaw <= Rated
BY PVAssumption DEF MaxFixedRaw, Least

\* A clamped register is below its limit, and one below it is left alone.
LEMMA ClampBounds ==
    ASSUME NEW v \in Nat, NEW hi \in Nat
    PROVE  /\ ClampU16(v, hi) \in Nat /\ ClampU16(v, hi) <= hi
           /\ v <= hi => ClampU16(v, hi) = v
BY DEF ClampU16, Least

\* A percent limit of at most 1000 allows no more than the rating.
LEMMA PercentBound ==
    ASSUME NEW pct \in Nat, pct <= 1000
    PROVE  /\ (Rated * pct) \div 1000 \in Nat
           /\ (Rated * pct) \div 1000 <= Rated
<1> DEFINE m == Rated * pct
<1>1. Rated \in Nat
  BY PVAssumption
<1>2. m \in Nat /\ m <= Rated * 1000
  <2>1. ASSUME NEW a \in Nat, NEW b \in Nat, NEW c \in Nat, a <= b
        PROVE  c * a <= c * b /\ c * a \in Nat
    BY <2>1
  <2> QED BY <1>1, <2>1
<1> HIDE DEF m
<1>3. m \div 1000 \in Nat /\ m \div 1000 <= Rated
  BY <1>1, <1>2
<1> QED BY <1>3 DEF m

\* What a tick allows as output, in either mode.
LEMMA LimitBound ==
    ASSUME NEW m, NEW pct \in Nat, NEW fix \in Nat,
           pct <= 1000, fix <= MaxFixedRaw
    PROVE  ActiveLimit(m, pct, fix) \in Nat /\ ActiveLimit(m, pct, fix) <= Rated
BY PercentBound, FixedBound, PVAssumption DEF ActiveLimit

\* A fresh inverter satisfies the invariant.
LEMMA InitInv == Init => PVInv
<1> SUFFICES ASSUME Init PROVE PVInv
  OBVIOUS
<1>1. PICK date \in Dates : \E sun \in Suns :
        /\ power = FreshPower(sun) /\ peak = FreshPower(sun)
        /\ runStatus = RunStatus(TRUE, FreshPower(sun)) /\ keys = date
  BY ZenonT(60) DEF Init
<1>2. PICK sun \in Suns :
        /\ power = FreshPower(sun) /\ peak = FreshPower(sun)
        /\ runStatus = RunStatus(TRUE, FreshPower(sun)) /\ keys = date
  BY <1>1
<1>3. FreshPower(sun) \in Nat
  BY PVAssumption DEF FreshPower, Least
<1>4. reg = FreshRegisters /\ reg \in [Controls -> Nat]
  BY DEF Init, FreshRegisters
<1>5. saved \in Snapshots /\ SavedPeriodsNest
  BY DEF Init, Snapshot, Snapshots, SavedPeriodsNest
<1>6. runStatus \in {1, 2, 5}
  BY <1>2 DEF RunStatus
<1>7. LimitsCoherent
  BY <1>4, FixedBound DEF Init, LimitsCoherent, FreshRegisters, Controls
<1>8. /\ running \in BOOLEAN /\ mode \in {"percent", "fixed"}
      /\ lastPercent \in Nat /\ lastFixed \in Nat
      /\ total = 0 /\ daily = 0 /\ monthly = 0 /\ yearly = 0
  BY DEF Init
<1>9. PeriodsNest
  BY <1>8 DEF PeriodsNest
<1>10. power \in Nat /\ peak \in Nat /\ keys \in Dates
  BY <1>2, <1>3
<1>11. TypeOK
  BY <1>4, <1>5, <1>6, <1>8, <1>10 DEF TypeOK
<1> QED BY <1>5, <1>7, <1>9, <1>11 DEF PVInv

\* A client write clamps a limit, remembers it and stores it back.
LEMMA WriteInv ==
    ASSUME PVInv, NEW w \in Requests, OnPVWrite(w[1], w[2]) PROVE PVInv'
<1>1. w[1] \in Controls /\ w[2] \in Nat
  BY RequestAssumption, PVAssumption
<1>2. /\ Stored(w[1], w[2]) \in Nat
      /\ w[1] = "percent" => /\ Stored(w[1], w[2]) = ClampU16(w[2], 1000)
                             /\ ClampU16(w[2], 1000) \in Nat
                             /\ ClampU16(w[2], 1000) <= 1000
      /\ w[1] = "fixed" => /\ Stored(w[1], w[2]) = ClampU16(w[2], MaxFixedRaw)
                           /\ ClampU16(w[2], MaxFixedRaw) \in Nat
                           /\ ClampU16(w[2], MaxFixedRaw) <= MaxFixedRaw
  BY <1>1, ClampBounds, FixedBound DEF Stored
<1>3. reg \in [Controls -> Nat] /\ reg' = [reg EXCEPT ![w[1]] = Stored(w[1], w[2])]
  BY DEF PVInv, TypeOK, OnPVWrite
<1>4. reg' \in [Controls -> Nat]
  BY <1>1, <1>2, <1>3
<1>5. LimitsCoherent'
  BY <1>1, <1>2, <1>3 DEF PVInv, LimitsCoherent, OnPVWrite, Controls
<1>6. lastPercent' \in Nat /\ lastFixed' \in Nat /\ mode' \in {"percent", "fixed"}
  BY <1>1, <1>2 DEF PVInv, TypeOK, OnPVWrite
<1>7. UNCHANGED <<running, power, counters, runStatus, saved>>
  BY DEF OnPVWrite
<1>8. UNCHANGED <<running, power, total, daily, monthly, yearly, peak, keys,
                  runStatus, saved>>
  BY <1>7 DEF counters
<1> QED BY <1>4, <1>5, <1>6, <1>8
        DEF PVInv, TypeOK, PeriodsNest, SavedPeriodsNest

\* ProcessControls leaves the limits and the mode as they are, because the
\* limit registers hold what is remembered.
LEMMA ControlsSettled ==
    ASSUME PVInv, ProcessControls
    PROVE  /\ mode' = mode /\ lastPercent' = lastPercent /\ lastFixed' = lastFixed
           /\ reg' \in [Controls -> Nat] /\ running' \in BOOLEAN
           /\ LimitsCoherent'
<1>1. /\ reg \in [Controls -> Nat]
      /\ lastPercent \in Nat /\ lastFixed \in Nat /\ running \in BOOLEAN
      /\ reg["percent"] = lastPercent /\ lastPercent <= 1000
      /\ reg["fixed"] = lastFixed /\ lastFixed <= MaxFixedRaw
  BY DEF PVInv, TypeOK, LimitsCoherent
<1>2. ~PercentChanged /\ ~FixedChanged
  BY <1>1 DEF PercentChanged, FixedChanged
<1>3. Consumed("percent") = lastPercent /\ Consumed("fixed") = lastFixed
  BY <1>1, ClampBounds, FixedBound DEF Consumed
<1>4. \A r \in Controls : Consumed(r) \in Nat
  BY <1>1, <1>3 DEF Consumed
<1>5. /\ reg' = [r \in Controls |-> Consumed(r)]
      /\ mode' = mode /\ lastPercent' = lastPercent /\ lastFixed' = lastFixed
      /\ running' = RunningAfter
  BY <1>2 DEF ProcessControls
<1>6. running' \in BOOLEAN
  BY <1>1, <1>5 DEF RunningAfter
<1>7. LimitsCoherent'
  BY <1>1, <1>3, <1>5 DEF LimitsCoherent, Controls
<1> QED BY <1>4, <1>5, <1>6, <1>7

\* What the output of a tick is bounded by.
LEMMA OutputBound ==
    ASSUME PVInv, ProcessControls, NEW date, NEW sun \in Suns, NEW dt \in Delays,
           UpdateSimulation(date, sun, dt)
    PROVE  /\ power' \in Nat /\ power' * dt \in Nat
           /\ power' <= ActiveLimit(mode', lastPercent', lastFixed')
           /\ power' <= Rated
           /\ peak' \in Nat /\ power' <= peak'
<1> DEFINE limit == ActiveLimit(mode', lastPercent', lastFixed')
<1>1. limit \in Nat /\ limit <= Rated
  <2>1. /\ lastPercent \in Nat /\ lastPercent <= 1000
        /\ lastFixed \in Nat /\ lastFixed <= MaxFixedRaw
    BY DEF PVInv, TypeOK, LimitsCoherent
  <2>2. mode' = mode /\ lastPercent' = lastPercent /\ lastFixed' = lastFixed
    BY ControlsSettled
  <2> QED BY <2>1, <2>2, LimitBound
<1>2. power' = Output(running', sun, limit)
  BY DEF UpdateSimulation
<1>3. sun \in Nat /\ dt \in Nat /\ Rated \in Nat
  BY PVAssumption
<1> HIDE DEF limit
<1>4. power' \in Nat /\ power' <= limit /\ power' <= Rated
  BY <1>1, <1>2, <1>3 DEF Output, Least
<1>5. Turned(keys.day, date.day, peak) \in Nat
  BY DEF Turned, PVInv, TypeOK
<1>6. peak' \in Nat /\ power' <= peak'
  BY <1>4, <1>5 DEF UpdateSimulation
<1>7. power' * dt \in Nat
  <2>1. \A a, b \in Nat : a * b \in Nat
    OBVIOUS
  <2> QED BY <1>3, <1>4, <2>1
<1> QED BY <1>4, <1>6, <1>7 DEF limit

\* The turnover keeps the order of the counters: whenever a longer period
\* starts again, so does every shorter one inside it.
LEMMA BookNests ==
    ASSUME TypeOK, PeriodsNest, NEW date \in Dates, NEW delta \in Nat,
           Book(date, delta)
    PROVE  /\ total' \in Nat /\ daily' \in Nat /\ monthly' \in Nat /\ yearly' \in Nat
           /\ PeriodsNest'
<1>1. /\ total \in Nat /\ daily \in Nat /\ monthly \in Nat /\ yearly \in Nat
      /\ daily <= monthly /\ monthly <= yearly /\ yearly <= total
  BY DEF TypeOK, PeriodsNest
<1>2. keys \in Dates
  BY DEF TypeOK
<1>3. /\ keys.day # 0 /\ keys.month # 0 /\ keys.year # 0
  BY <1>2, PVAssumption
<1>4. /\ keys.day = date.day => keys.month = date.month
      /\ keys.month = date.month => keys.year = date.year
  BY <1>2, CalendarAssumption
<1>5. /\ daily' = (IF keys.day # date.day THEN 0 ELSE daily) + delta
      /\ monthly' = (IF keys.month # date.month THEN 0 ELSE monthly) + delta
      /\ yearly' = (IF keys.year # date.year THEN 0 ELSE yearly) + delta
      /\ total' = total + delta
  BY <1>3 DEF Book, Turned, Adopted
<1> QED BY <1>1, <1>4, <1>5 DEF PeriodsNest

\* A tick keeps the invariant.
LEMMA TickInv == ASSUME PVInv, Tick PROVE PVInv'
<1>1. PICK date \in Dates : \E sun \in Suns, dt \in Delays :
        /\ ProcessControls
        /\ UpdateSimulation(date, sun, dt)
        /\ runStatus' = RunStatus(running', power')
        /\ UNCHANGED saved
  BY DEF Tick
<1>2. PICK sun \in Suns, dt \in Delays :
        /\ ProcessControls
        /\ UpdateSimulation(date, sun, dt)
        /\ runStatus' = RunStatus(running', power')
        /\ UNCHANGED saved
  BY <1>1
<1>3. /\ mode' = mode /\ lastPercent' = lastPercent /\ lastFixed' = lastFixed
      /\ reg' \in [Controls -> Nat] /\ running' \in BOOLEAN
      /\ LimitsCoherent'
  BY <1>2, ControlsSettled
<1>4. power' \in Nat /\ power' * dt \in Nat /\ peak' \in Nat
  BY <1>2, OutputBound
<1>5. Book(date, power' * dt) /\ keys' = date
  BY <1>2 DEF UpdateSimulation
<1>6. /\ total' \in Nat /\ daily' \in Nat /\ monthly' \in Nat /\ yearly' \in Nat
      /\ PeriodsNest'
  BY <1>4, <1>5, BookNests DEF PVInv
<1>7. runStatus' \in {1, 2, 5}
  BY <1>2 DEF RunStatus
<1> QED BY <1>2, <1>3, <1>4, <1>5, <1>6, <1>7
        DEF PVInv, TypeOK, SavedPeriodsNest

\* Saving keeps the invariant: what nests in memory nests in the file.
LEMMA SaveInv == ASSUME PVInv, Save PROVE PVInv'
<1>1. UNCHANGED <<reg, running, power, mode, lastPercent, lastFixed, counters,
                  runStatus>>
  BY DEF Save
<1>2. UNCHANGED <<reg, running, power, mode, lastPercent, lastFixed, total, daily,
                  monthly, yearly, peak, keys, runStatus>>
  BY <1>1 DEF counters
<1>3. saved' = Snapshot(total, daily, monthly, yearly, peak, keys)
  BY DEF Save
<1>4. saved' \in Snapshots /\ SavedPeriodsNest'
  BY <1>3 DEF Snapshot, Snapshots, SavedPeriodsNest, PVInv, TypeOK, PeriodsNest
<1> QED BY <1>2, <1>4 DEF PVInv, TypeOK, PeriodsNest, LimitsCoherent

\* A restart keeps the invariant: what nests in the file nests in memory.
LEMMA RestartInv == ASSUME PVInv, Restart PROVE PVInv'
<1>1. PICK date \in Dates : \E sun \in Suns :
        /\ power' = FreshPower(sun)
        /\ runStatus' = RunStatus(TRUE, FreshPower(sun))
        /\ IF saved.keys = NoKeys
           THEN peak' = FreshPower(sun) /\ keys' = date
           ELSE peak' = saved.peak /\ keys' = saved.keys
  BY ZenonT(60) DEF Restart
<1>2. PICK sun \in Suns :
        /\ power' = FreshPower(sun)
        /\ runStatus' = RunStatus(TRUE, FreshPower(sun))
        /\ IF saved.keys = NoKeys
           THEN peak' = FreshPower(sun) /\ keys' = date
           ELSE peak' = saved.peak /\ keys' = saved.keys
  BY <1>1
<1>3. /\ saved.total \in Nat /\ saved.daily \in Nat /\ saved.monthly \in Nat
      /\ saved.yearly \in Nat /\ saved.peak \in Nat
      /\ saved.keys \in Dates \cup {NoKeys}
  BY DEF PVInv, TypeOK, Snapshots
<1>4. FreshPower(sun) \in Nat
  BY PVAssumption DEF FreshPower, Least
<1>5. power' \in Nat /\ peak' \in Nat /\ keys' \in Dates /\ runStatus' \in {1, 2, 5}
  BY <1>2, <1>3, <1>4 DEF RunStatus
<1>6. /\ reg' = FreshRegisters /\ running' = TRUE /\ mode' = "percent"
      /\ lastPercent' = 1000 /\ lastFixed' = 0
      /\ total' = saved.total /\ daily' = saved.daily
      /\ monthly' = saved.monthly /\ yearly' = saved.yearly
      /\ UNCHANGED saved
  BY DEF Restart
<1>7. reg' \in [Controls -> Nat] /\ LimitsCoherent'
  BY <1>6, FixedBound DEF FreshRegisters, LimitsCoherent, Controls
<1>8. PeriodsNest' /\ SavedPeriodsNest'
  BY <1>6 DEF PVInv, PeriodsNest, SavedPeriodsNest
<1> QED BY <1>3, <1>5, <1>6, <1>7, <1>8 DEF PVInv, TypeOK

\* The invariant holds in every reachable state.
LEMMA Invariance == Spec => []PVInv
<1>1. PVInv /\ [Next]_vars => PVInv'
  <2> SUFFICES ASSUME PVInv, [Next]_vars PROVE PVInv'
    OBVIOUS
  <2>1. CASE Tick
    BY <2>1, TickInv
  <2>2. ASSUME NEW w \in Requests, OnPVWrite(w[1], w[2]) PROVE PVInv'
    BY <2>2, WriteInv
  <2>3. CASE Save
    BY <2>3, SaveInv
  <2>4. CASE Restart
    BY <2>4, RestartInv
  <2>5. CASE UNCHANGED vars
    BY <2>5 DEF vars, counters, PVInv, TypeOK, PeriodsNest, SavedPeriodsNest,
                LimitsCoherent
  <2> QED BY <2>1, <2>2, <2>3, <2>4, <2>5 DEF Next
<1> QED BY <1>1, InitInv, PTL DEF Spec

\* Every variable keeps its type.
THEOREM TypeCorrect == Spec => []TypeOK
<1>1. PVInv => TypeOK
  BY DEF PVInv
<1> QED BY <1>1, Invariance, PTL

\* A day never shows more energy than its month, a month than its year, a year
\* than the lifetime, through clock jumps, missed ticks and restarts.
THEOREM PeriodsNested == Spec => []PeriodsNest
<1>1. PVInv => PeriodsNest
  BY DEF PVInv
<1> QED BY <1>1, Invariance, PTL

\* The output of a tick respects the limit in force, the rating and the peak.
THEOREM OutputWithinLimits == Spec => OutputLimited
<1>1. PVInv /\ [Next]_vars
        => [Tick => /\ power' <= ActiveLimit(mode', lastPercent', lastFixed')
                    /\ power' <= Rated
                    /\ power' <= peak']_vars
  BY OutputBound DEF Tick
<1> QED BY <1>1, Invariance, PTL DEF Spec, OutputLimited

\* No tick changes the limit that was written last.
THEOREM LimitStays == Spec => LastLimitWins
<1>1. PVInv /\ [Next]_vars
        => [Tick => /\ mode' = mode /\ lastPercent' = lastPercent
                    /\ lastFixed' = lastFixed]_vars
  BY ControlsSettled DEF Tick
<1> QED BY <1>1, Invariance, PTL DEF Spec, LastLimitWins

\* The lifetime counter falls only in a restart, to the saved value.
THEOREM TotalKept == Spec => TotalSurvives
<1>1. PVInv /\ [Next]_vars => [total' < total => total' = saved.total]_vars
  <2> SUFFICES ASSUME PVInv, [Next]_vars PROVE total' < total => total' = saved.total
    OBVIOUS
  <2>0. total \in Nat
    BY DEF PVInv, TypeOK
  <2>1. CASE Tick
    <3>1. PICK date \in Dates : \E sun \in Suns, dt \in Delays :
            ProcessControls /\ UpdateSimulation(date, sun, dt)
      BY <2>1 DEF Tick
    <3>2. PICK sun \in Suns, dt \in Delays :
            ProcessControls /\ UpdateSimulation(date, sun, dt)
      BY <3>1
    <3>3. power' * dt \in Nat
      BY <3>2, OutputBound
    <3>4. total' = total + power' * dt
      BY <3>2 DEF UpdateSimulation, Book
    <3> DEFINE delta == power' * dt
    <3>5. delta \in Nat /\ total' = total + delta
      BY <3>3, <3>4
    <3> HIDE DEF delta
    <3> QED BY <2>0, <3>5
  <2>2. ASSUME NEW w \in Requests, OnPVWrite(w[1], w[2]) PROVE total' = total
    BY <2>2 DEF OnPVWrite, counters
  <2>3. CASE Save
    BY <2>0, <2>3 DEF Save, counters
  <2>4. CASE Restart
    BY <2>4 DEF Restart
  <2>5. CASE UNCHANGED vars
    BY <2>0, <2>5 DEF vars, counters
  <2> QED BY <2>0, <2>1, <2>2, <2>3, <2>4, <2>5 DEF Next
<1> QED BY <1>1, Invariance, PTL DEF Spec, TotalSurvives
=============================================================================
