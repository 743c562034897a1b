------------------------------- MODULE PVUnit -------------------------------
(***************************************************************************)
(* A PV inverter (internal/simulator/pv_unit.go, pv_sync.go): two power    *)
(* limits of which the one written last counts, start and stop pulses, and *)
(* energy counters per day, month, year and lifetime that turn over with   *)
(* the site's calendar.  Writes, ticks, snapshots and restores hold        *)
(* Simulator.mu.  A restart rebuilds the unit and restores the counters    *)
(* from the last saved snapshot (state.go), under whatever date it is.     *)
(*                                                                         *)
(* Powers count 0.1 kW, energies power times seconds.  A date is a triple  *)
(* of keys.  The sun and the clouds are an input.                          *)
(***************************************************************************)
EXTENDS Integers

CONSTANTS
    Rated,       \* ratedPowerKW * 10
    Suns,        \* the natural powers weather and time of day may allow
    Delays,      \* seconds between ticks
    Dates,       \* records [day, month, year] the site clock may show
    Requests,    \* <<register, value>> writes clients may send
    MaxRaw       \* 65535, the largest register value

Controls == {"startup", "shutdown", "percent", "fixed"}

ASSUME PVAssumption ==
    /\ Rated \in Nat /\ MaxRaw \in Nat
    /\ Suns \subseteq Nat /\ Delays \subseteq Nat
    /\ Dates \subseteq [day : Nat \ {0}, month : Nat \ {0}, year : Nat \ {0}]

\* The keys of Go's calendar: one day lies in one month, one month in one year.
ASSUME CalendarAssumption ==
    \A a, b \in Dates : /\ a.day = b.day => a.month = b.month
                        /\ a.month = b.month => a.year = b.year

ASSUME RequestAssumption ==
    Requests \subseteq Controls \X (0..MaxRaw)

VARIABLES
    reg,                           \* the four control registers
    running, power, mode,          \* actualPowerKW, limitMode
    lastPercent, lastFixed,
    total, daily, monthly, yearly, peak,
    keys,                          \* dayKey, monthKey, yearKey
    runStatus,                     \* RegPVRunStatus
    saved                          \* the counters and keys in the state file

counters == <<total, daily, monthly, yearly, peak, keys>>
vars == <<reg, running, power, mode, lastPercent, lastFixed, counters,
          runStatus, saved>>

-----------------------------------------------------------------------------
Least(a, b) == IF a < b THEN a ELSE b
ClampU16(v, hi) == Least(v, hi)
MaxFixedRaw == Least(Rated, MaxRaw)

ActiveLimit(m, pct, fix) ==
    IF m = "fixed" THEN fix ELSE (Rated * pct) \div 1000

NoKeys == [day |-> 0, month |-> 0, year |-> 0]

Snapshot(t, d, m, y, pk, k) ==
    [total |-> t, daily |-> d, monthly |-> m, yearly |-> y, peak |-> pk, keys |-> k]

\* resetPeriods: a counter starts again when its key changes; a key of 0 was
\* never set and takes the present one.
Adopted(old, new) == IF old = 0 THEN new ELSE old
Turned(old, new, n) == IF Adopted(old, new) # new THEN 0 ELSE n

RunStatus(run, pw) == IF ~run THEN 1 ELSE IF pw > 0 THEN 5 ELSE 2

-----------------------------------------------------------------------------
\* NewPVUnit and the UpdateSimulation and Sync NewSimulator ends with: no time
\* has passed, and the limit is 100 %.
FreshRegisters ==
    [c \in Controls |-> IF c = "percent" THEN 1000 ELSE 0]
FreshPower(sun) == Least(sun, Rated)

Init ==
    \E date \in Dates, sun \in Suns :
        /\ reg = FreshRegisters
        /\ running = TRUE /\ mode = "percent"
        /\ lastPercent = 1000 /\ lastFixed = 0
        /\ power = FreshPower(sun) /\ peak = FreshPower(sun)
        /\ runStatus = RunStatus(TRUE, FreshPower(sun))
        /\ total = 0 /\ daily = 0 /\ monthly = 0 /\ yearly = 0
        /\ keys = date
        /\ saved = Snapshot(0, 0, 0, 0, 0, NoKeys)

\* Bug: the clamped limit is not stored back.
StoredRaw(r, v) == v

\* What a limit register holds after a write.
Stored(r, v) ==
    CASE r = "percent" -> ClampU16(v, 1000)
      [] r = "fixed" -> ClampU16(v, MaxFixedRaw)
      [] OTHER -> v

\* A write through FC6 or FC16, whose registers are handled in ascending
\* order.  A limit that is written becomes the active one.
OnPVWrite(r, v) ==
    /\ reg' = [reg EXCEPT ![r] = Stored(r, v)]
    /\ lastPercent' = IF r = "percent" THEN ClampU16(v, 1000) ELSE lastPercent
    /\ lastFixed' = IF r = "fixed" THEN ClampU16(v, MaxFixedRaw) ELSE lastFixed
    /\ mode' = IF r \in {"percent", "fixed"} THEN r ELSE mode
    /\ UNCHANGED <<running, power, counters, runStatus, saved>>

(***************************************************************************)
(* A tick: ProcessControls, UpdateSimulation, Sync.                        *)
(***************************************************************************)
RunningAfter == (running \/ reg["startup"] = 1) /\ reg["shutdown"] # 1

\* Limits are clamped once more, start and stop pulses reset.
Consumed(r) ==
    CASE r = "percent" -> ClampU16(reg[r], 1000)
      [] r = "fixed" -> ClampU16(reg[r], MaxFixedRaw)
      [] OTHER -> IF reg[r] = 1 THEN 0 ELSE reg[r]

PercentChanged == reg["percent"] # lastPercent
FixedChanged   == reg["fixed"] # lastFixed

ProcessControls ==
    /\ running' = RunningAfter
    /\ reg' = [r \in Controls |-> Consumed(r)]
    /\ lastPercent' = IF PercentChanged THEN Consumed("percent") ELSE lastPercent
    /\ lastFixed' = IF FixedChanged THEN Consumed("fixed") ELSE lastFixed
    /\ mode' = IF FixedChanged THEN "fixed"
               ELSE IF PercentChanged THEN "percent" ELSE mode

\* The output under the sun and the limit in force.
Output(run, sun, limit) == IF run THEN Least(sun, limit) ELSE 0

\* Bug: the day does not turn over.
EndlessDay(date, delta) ==
    /\ total' = total + delta
    /\ daily' = daily + delta
    /\ monthly' = Turned(keys.month, date.month, monthly) + delta
    /\ yearly' = Turned(keys.year, date.year, yearly) + delta

\* Bug: the lifetime counter turns over with the year.
YearlyTotal(date, delta) ==
    /\ total' = Turned(keys.year, date.year, total) + delta
    /\ daily' = Turned(keys.day, date.day, daily) + delta
    /\ monthly' = Turned(keys.month, date.month, monthly) + delta
    /\ yearly' = Turned(keys.year, date.year, yearly) + delta

\* resetPeriods and the energy of one tick.
Book(date, delta) ==
    /\ total' = total + delta
    /\ daily' = Turned(keys.day, date.day, daily) + delta
    /\ monthly' = Turned(keys.month, date.month, monthly) + delta
    /\ yearly' = Turned(keys.year, date.year, yearly) + delta

UpdateSimulation(date, sun, dt) ==
    LET top == Turned(keys.day, date.day, peak)
    IN  /\ power' = Output(running', sun, ActiveLimit(mode', lastPercent', lastFixed'))
        /\ peak' = IF power' > top THEN power' ELSE top
        /\ Book(date, power' * dt)
        /\ keys' = date

Tick ==
    \E date \in Dates, sun \in Suns, dt \in Delays :
        /\ ProcessControls
        /\ UpdateSimulation(date, sun, dt)
        /\ runStatus' = RunStatus(running', power')
        /\ UNCHANGED saved

\* SnapshotLocked and SaveState, by the save ticker or at shutdown.
Save ==
    /\ saved' = Snapshot(total, daily, monthly, yearly, peak, keys)
    /\ UNCHANGED <<reg, running, power, mode, lastPercent, lastFixed, counters,
                   runStatus>>

\* The process stops at any time and comes up again: NewSimulator runs the unit
\* once, then RestoreLocked brings the saved counters and keys back.  Limits
\* and the running flag are not saved.  Without a state file all counters keep
\* their zeros, which is what the initial snapshot holds.
Restart ==
    \E date \in Dates, sun \in Suns :
        /\ reg' = FreshRegisters
        /\ running' = TRUE /\ mode' = "percent"
        /\ lastPercent' = 1000 /\ lastFixed' = 0
        /\ power' = FreshPower(sun)
        /\ runStatus' = RunStatus(TRUE, FreshPower(sun))
        /\ total' = saved.total /\ daily' = saved.daily
        /\ monthly' = saved.monthly /\ yearly' = saved.yearly
        /\ IF saved.keys = NoKeys
           THEN peak' = FreshPower(sun) /\ keys' = date
           ELSE peak' = saved.peak /\ keys' = saved.keys
        /\ UNCHANGED saved

Next ==
    \/ Tick
    \/ \E w \in Requests : OnPVWrite(w[1], w[2])
    \/ Save
    \/ Restart

Spec == Init /\ [][Next]_vars

-----------------------------------------------------------------------------
Snapshots ==
    [total : Nat, daily : Nat, monthly : Nat, yearly : Nat, peak : Nat,
     keys : Dates \cup {NoKeys}]

\* Every variable has its type; the keys are always those of one date.
TypeOK ==
    /\ reg \in [Controls -> Nat]
    /\ running \in BOOLEAN /\ power \in Nat /\ mode \in {"percent", "fixed"}
    /\ lastPercent \in Nat /\ lastFixed \in Nat
    /\ total \in Nat /\ daily \in Nat /\ monthly \in Nat /\ yearly \in Nat
    /\ peak \in Nat /\ runStatus \in {1, 2, 5}
    /\ keys \in Dates
    /\ saved \in Snapshots

\* No period has produced more than a longer one that contains it, although
\* the clock may jump either way, ticks may be missed across a turnover and a
\* restart may restore the counters of another day.
PeriodsNest == daily <= monthly /\ monthly <= yearly /\ yearly <= total

\* After a tick the output respects the limit in force and the rating, and the
\* day's peak is at least the present output.
OutputLimited ==
    [][Tick => /\ power' <= ActiveLimit(mode', lastPercent', lastFixed')
               /\ power' <= Rated
               /\ power' <= peak']_vars

\* The last limit written stays in force until the other one is written or the
\* process restarts; no tick changes it.
LastLimitWins ==
    [][Tick => mode' = mode /\ lastPercent' = lastPercent /\ lastFixed' = lastFixed]_vars

\* The lifetime counter falls only in a restart, to what was last saved.
TotalSurvives == [][total' < total => total' = saved.total]_vars
=============================================================================
