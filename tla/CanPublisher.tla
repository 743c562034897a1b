---------------------------- MODULE CanPublisher ----------------------------
(***************************************************************************)
(* One CAN publisher (internal/protocol/can): a goroutine that broadcasts  *)
(* the registers of a BMS bank, one that applies the commands it receives, *)
(* the simulator tick that rewrites the bank, and the main goroutine that  *)
(* ticks and, after a signal, closes the publisher.                        *)
(*                                                                         *)
(* A bank register has a lock of its own; a tick writes the registers one  *)
(* by one under Simulator.mu, which the broadcast does not take.  A        *)
(* register holds the number of the tick that wrote it, except for the     *)
(* lifetime charge total, whose two words hold its value in base Word.     *)
(* The bus and the descriptor follow socketcan as can_bus_linux.go uses    *)
(* it: a read that is blocked when another thread closes its descriptor    *)
(* stays blocked until a frame arrives.                                    *)
(***************************************************************************)
EXTENDS Naturals, Sequences

CONSTANTS
    Word,        \* the values of one register of the total
    Growth,      \* what the total may gain in a tick
    MaxTicks,    \* bound on the number of ticks
    MaxQueue     \* bound on the frames that wait in the socket

ASSUME PublisherAssumption ==
    /\ Word \in Nat \ {0} /\ Growth \subseteq Nat
    /\ MaxTicks \in Nat /\ MaxQueue \in Nat

\* The registers in the order Sync writes them (status, energy, limits), the
\* total written as a pair, and in the order buildBMSFrames reads them.
SyncOrder == <<"sysStatus", "chargeForbid", "soc", "total", "maxCharge">>
ReadOrder == <<"sysStatus", "chargeForbid", "soc", "hi", "lo", "maxCharge">>
Registers == {"sysStatus", "chargeForbid", "soc", "hi", "lo", "maxCharge"}

VARIABLES
    ticks, total,     \* completed controls; totalChargeKWh * 10
    mu,               \* the holder of Simulator.mu: "none" or "tick"
    syncAt,           \* how many entries of SyncOrder this tick has written
    bank,             \* the registers
    oldest,           \* the last tick whose Sync was complete at round start
    got,              \* what the round has read so far
    bcast,            \* "idle", "reading", "sending", "done"
    recv,             \* "calling", "blocked", "applying", "done"
    pulse,            \* a command register is 1
    inbox,            \* frames the socket holds: "command" or "other"
    closed,           \* p.closed is closed
    fd,               \* the descriptor is open
    main              \* "serving", "closing", "waiting", "gone"

bankVars == <<ticks, total, mu, syncAt, bank, pulse>>
sendVars == <<oldest, got, bcast>>
closeVars == <<closed, fd, main>>
vars == <<bankVars, sendVars, recv, inbox, closeVars>>

-----------------------------------------------------------------------------
Init ==
    /\ ticks = 0 /\ total = 0
    /\ mu = "none" /\ syncAt = Len(SyncOrder)
    /\ bank = [r \in Registers |-> 0]
    /\ oldest = 0 /\ got = <<>> /\ bcast = "idle"
    /\ recv = "calling" /\ pulse = FALSE
    /\ inbox = <<>>
    /\ closed = FALSE /\ fd = TRUE /\ main = "serving"

(***************************************************************************)
(* The tick, in the main goroutine.                                        *)
(***************************************************************************)
TickStart ==
    /\ main = "serving" /\ mu = "none" /\ ticks < MaxTicks
    /\ mu' = "tick"
    /\ ticks' = ticks + 1
    /\ \E g \in Growth : total' = total + g
    /\ pulse' = FALSE                 \* ProcessBMSControls
    /\ syncAt' = 0
    /\ UNCHANGED <<bank, sendVars, recv, inbox, closeVars>>

\* Bug: the two words of the total are written one at a time, low word first.
LowWordFirst(r) ==
    IF r = "total" THEN [bank EXCEPT !["lo"] = total % Word]
    ELSE IF r = "maxCharge"
         THEN [bank EXCEPT !["hi"] = total \div Word, ![r] = ticks]
    ELSE [bank EXCEPT ![r] = ticks]

\* WriteU16, or WriteU32 under one lock for the total.
Written(r) ==
    IF r = "total"
    THEN [bank EXCEPT !["hi"] = total \div Word, !["lo"] = total % Word]
    ELSE [bank EXCEPT ![r] = ticks]

\* Sync writes the next register or pair.
SyncStep ==
    /\ mu = "tick" /\ syncAt < Len(SyncOrder)
    /\ bank' = Written(SyncOrder[syncAt + 1])
    /\ syncAt' = syncAt + 1
    /\ UNCHANGED <<ticks, total, mu, pulse, sendVars, recv, inbox, closeVars>>

TickEnd ==
    /\ mu = "tick" /\ syncAt = Len(SyncOrder)
    /\ mu' = "none"
    /\ UNCHANGED <<ticks, total, syncAt, bank, pulse, sendVars, recv, inbox,
                   closeVars>>

(***************************************************************************)
(* broadcastLoop.                                                          *)
(***************************************************************************)
LastSynced == IF mu = "tick" THEN ticks - 1 ELSE ticks

\* The ticker fires.  select takes either ready case, so a round may still
\* start after p.closed is closed.
RoundStart ==
    /\ bcast = "idle"
    /\ bcast' = "reading" /\ got' = <<>>
    /\ oldest' = LastSynced
    /\ UNCHANGED <<bankVars, recv, inbox, closeVars>>

\* Bug: the status is read once and for all.
ReadCached ==
    /\ bcast = "reading" /\ Len(got) < Len(ReadOrder)
    /\ got' = Append(got, IF Len(got) = 0 THEN 0 ELSE bank[ReadOrder[Len(got) + 1]])
    /\ bcast' = IF Len(got') = Len(ReadOrder) THEN "sending" ELSE "reading"
    /\ UNCHANGED <<oldest, bankVars, recv, inbox, closeVars>>

\* buildBMSFrames: one ReadU16 per register.
ReadNext ==
    /\ bcast = "reading" /\ Len(got) < Len(ReadOrder)
    /\ got' = Append(got, bank[ReadOrder[Len(got) + 1]])
    /\ bcast' = IF Len(got') = Len(ReadOrder) THEN "sending" ELSE "reading"
    /\ UNCHANGED <<oldest, bankVars, recv, inbox, closeVars>>

\* The frames go out.  A failing Send ends the round, and the goroutine too
\* when p.closed is closed.
RoundEnd ==
    /\ bcast = "sending"
    /\ \/ fd /\ bcast' = "idle"                    \* all sent
       \/ bcast' = IF closed THEN "done" ELSE "idle"   \* a Send failed
    /\ UNCHANGED <<oldest, got, bankVars, recv, inbox, closeVars>>

BroadcastExit ==
    /\ bcast = "idle" /\ closed
    /\ bcast' = "done"
    /\ UNCHANGED <<oldest, got, bankVars, recv, inbox, closeVars>>

(***************************************************************************)
(* recvLoop.                                                               *)
(***************************************************************************)
\* Bug: an error is not taken as the end of a closed publisher.
RecvRetry ==
    /\ recv = "calling"
    /\ recv' = IF fd THEN "blocked" ELSE "calling"
    /\ UNCHANGED <<bankVars, sendVars, inbox, closeVars>>

RecvCall ==
    /\ recv = "calling"
    /\ recv' = IF fd THEN "blocked" ELSE "done"    \* EBADF after a close
    /\ UNCHANGED <<bankVars, sendVars, inbox, closeVars>>

\* Recv returns a frame; decodeBMSCommand tells whether it is a command.
RecvFrame ==
    /\ recv = "blocked" /\ inbox # <<>>
    /\ inbox' = Tail(inbox)
    /\ recv' = IF Head(inbox) = "command" THEN "applying" ELSE "calling"
    /\ UNCHANGED <<bankVars, sendVars, closeVars>>

\* The interface goes down: the goroutine gives up for good.
RecvError ==
    /\ recv = "blocked"
    /\ recv' = "done"
    /\ UNCHANGED <<bankVars, sendVars, inbox, closeVars>>

\* WriteHoldingExternal: takes Simulator.mu for the write.
Apply ==
    /\ recv = "applying" /\ mu = "none"
    /\ pulse' = TRUE
    /\ recv' = "calling"
    /\ UNCHANGED <<ticks, total, mu, syncAt, bank, sendVars, inbox, closeVars>>

\* Another node sends a frame; an open socket, or one a blocked read still
\* refers to, queues it.
FrameArrives ==
    /\ Len(inbox) < MaxQueue
    /\ \E f \in {"command", "other"} :
          inbox' = IF fd \/ recv = "blocked" THEN Append(inbox, f) ELSE inbox
    /\ UNCHANGED <<bankVars, sendVars, recv, closeVars>>

(***************************************************************************)
(* Close, in the main goroutine, which then ticks no more.                 *)
(***************************************************************************)
CloseChannel ==
    /\ main = "serving" /\ mu = "none"
    /\ closed' = TRUE /\ main' = "closing"
    /\ UNCHANGED <<fd, bankVars, sendVars, recv, inbox>>

CloseBus ==
    /\ main = "closing"
    /\ fd' = FALSE /\ main' = "waiting"
    /\ UNCHANGED <<closed, bankVars, sendVars, recv, inbox>>

WaitGroup ==
    /\ main = "waiting" /\ bcast = "done" /\ recv = "done"
    /\ main' = "gone"
    /\ UNCHANGED <<closed, fd, bankVars, sendVars, recv, inbox>>

Tick      == TickStart \/ SyncStep \/ TickEnd
Broadcast == RoundStart \/ ReadNext \/ RoundEnd \/ BroadcastExit
Receive   == RecvCall \/ RecvFrame \/ Apply
Close     == CloseBus \/ WaitGroup

Next == Tick \/ Broadcast \/ Receive \/ RecvError \/ FrameArrives \/ CloseChannel \/ Close

Spec == Init /\ [][Next]_vars

\* The goroutines run; select chooses evenly among its ready cases, so that a
\* closed channel is seen in the end, and a mutex starves nobody.
\* A signal, bus traffic and interface errors are up to the environment.
FairSpec ==
    /\ Spec
    /\ WF_vars(SyncStep \/ TickEnd)
    /\ WF_vars(ReadNext \/ RoundEnd) /\ SF_vars(BroadcastExit)
    /\ WF_vars(Receive) /\ SF_vars(Apply) /\ WF_vars(Close)

-----------------------------------------------------------------------------
\* Every variable has its type.
TypeOK ==
    /\ ticks \in 0..MaxTicks /\ total \in Nat
    /\ mu \in {"none", "tick"} /\ syncAt \in 0..Len(SyncOrder)
    /\ bank \in [Registers -> Nat]
    /\ oldest \in 0..MaxTicks
    /\ got \in Seq(Nat) /\ Len(got) <= Len(ReadOrder)
    /\ inbox \in Seq({"command", "other"})
    /\ bcast \in {"idle", "reading", "sending", "done"}
    /\ recv \in {"calling", "blocked", "applying", "done"}
    /\ pulse \in BOOLEAN /\ closed \in BOOLEAN /\ fd \in BOOLEAN
    /\ main \in {"serving", "closing", "waiting", "gone"}

\* A round carries no register older than the last tick that was complete when
\* the round began, although it takes no lock and ticks go on beneath it.
FreshRound ==
    \A i \in DOMAIN got :
        ReadOrder[i] \notin {"hi", "lo"} => got[i] \in oldest..ticks

Joined(hi, lo) == hi * Word + lo

\* The two words of a total in the bank always belong together: what they
\* join to never falls.
TotalNeverFalls ==
    [][Joined(bank["hi"], bank["lo"]) <= Joined(bank'["hi"], bank'["lo"])]_vars

\* can_publisher.go:19 (canBus.Close): closing the socket makes a blocked Recv
\* return, so that Close, which waits for recvLoop, returns as well.
CloseReturns == main = "closing" ~> main = "gone"

\* Other nodes of the bus keep sending: a Recv that waits gets its frame.
TrafficGoesOn == recv = "blocked" ~> inbox # <<>> \/ recv = "done"

\* With traffic on the bus Close returns, at whatever moment of a round or of
\* a reception the signal comes.
CloseReturnsInTraffic == TrafficGoesOn => CloseReturns
=============================================================================
