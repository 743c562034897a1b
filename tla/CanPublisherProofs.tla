------------------------- MODULE CanPublisherProofs -------------------------
(***************************************************************************)
(* Theorems about CanPublisher, for every word size, growth and bound.     *)
(*                                                                         *)
(* FreshRound says something of what a round has read; it follows from     *)
(* what the bank holds at every point of a tick (RowsInStep) and from the  *)
(* fact that the last complete tick never moves back (RoundNotAhead).      *)
(***************************************************************************)
EXTENDS CanPublisher, Integers, TLAPS

\* Sync runs only under the mutex, in a tick that has begun.
SyncUnderMu ==
    /\ syncAt < Len(SyncOrder) => mu = "tick"
    /\ mu = "tick" => ticks >= 1

\* The registers that the tick has passed are of this tick, the others of the
\* one before; between two ticks all of them are of the last.
RowsInStep ==
    \A i \in 1..Len(SyncOrder) :
        SyncOrder[i] # "total" =>
            bank[SyncOrder[i]] = IF i <= syncAt THEN ticks ELSE ticks - 1

\* A round began under a tick that is complete by now.
RoundNotAhead == oldest <= LastSynced

\* The pair in the bank is a total that has been reached.
PairReached == Joined(bank["hi"], bank["lo"]) <= total

PublisherInv ==
    TypeOK /\ SyncUnderMu /\ RowsInStep /\ RoundNotAhead /\ FreshRound /\ PairReached

-----------------------------------------------------------------------------
LEMMA OrderLengths == Len(SyncOrder) = 5 /\ Len(ReadOrder) = 6
BY DEF SyncOrder, ReadOrder

\* What the rows say of each register that is not part of a pair.
LEMMA RowsOfRegisters ==
    ASSUME TypeOK, SyncUnderMu, RowsInStep,
           NEW r \in Registers \ {"hi", "lo"}
    PROVE  bank[r] \in LastSynced..ticks
<1>1. PICK i \in 1..5 : SyncOrder[i] = r /\ SyncOrder[i] # "total"
  <2>1. /\ SyncOrder[1] = "sysStatus" /\ SyncOrder[2] = "chargeForbid"
        /\ SyncOrder[3] = "soc" /\ SyncOrder[5] = "maxCharge"
    BY DEF SyncOrder
  <2>2. r \in {"sysStatus", "chargeForbid", "soc", "maxCharge"}
    BY DEF Registers
  <2>. QED  BY <2>1, <2>2
<1>2. bank[r] = IF i <= syncAt THEN ticks ELSE ticks - 1
  BY <1>1, OrderLengths DEF RowsInStep
<1>3. i > syncAt => mu = "tick" /\ ticks >= 1
  BY OrderLengths DEF SyncUnderMu, TypeOK
<1>. QED  BY <1>2, <1>3 DEF LastSynced, TypeOK

\* The quotient and the remainder that WriteU32 splits a total into join to it.
LEMMA SplitJoins ==
    ASSUME NEW t \in Nat
    PROVE  /\ t \div Word \in Nat /\ t % Word \in Nat
           /\ Joined(t \div Word, t % Word) = t
<1>1. Word \in Nat \ {0}
  BY PublisherAssumption
<1>. QED  BY <1>1 DEF Joined

LEMMA JoinedType ==
    ASSUME NEW hi \in Nat, NEW lo \in Nat PROVE Joined(hi, lo) \in Nat
BY PublisherAssumption DEF Joined

-----------------------------------------------------------------------------
LEMMA InvInit == Init => PublisherInv
<1> SUFFICES ASSUME Init PROVE PublisherInv
  OBVIOUS
<1> USE PublisherAssumption, OrderLengths
<1>1. TypeOK
  <2>1. bank \in [Registers -> Nat]
    BY DEF Init
  <2>2. got \in Seq(Nat) /\ Len(got) = 0 /\ inbox \in Seq({"command", "other"})
    BY DEF Init
  <2>3. /\ ticks \in 0..MaxTicks /\ total \in Nat /\ oldest \in 0..MaxTicks
        /\ mu \in {"none", "tick"} /\ syncAt \in 0..Len(SyncOrder)
    BY DEF Init
  <2>4. /\ bcast = "idle" /\ recv = "calling" /\ main = "serving"
        /\ pulse \in BOOLEAN /\ closed \in BOOLEAN /\ fd \in BOOLEAN
    BY Zenon DEF Init
  <2> QED BY <2>1, <2>2, <2>3, <2>4 DEF TypeOK
<1>2. SyncUnderMu
  BY DEF Init, SyncUnderMu
<1>3. RowsInStep
  <2>1. \A i \in 1..5 : SyncOrder[i] # "total" => SyncOrder[i] \in Registers
    BY DEF SyncOrder, Registers
  <2> QED BY <2>1 DEF Init, RowsInStep
<1>4. RoundNotAhead
  BY DEF Init, RoundNotAhead, LastSynced
<1>5. FreshRound
  BY DEF Init, FreshRound
<1>6. PairReached
  BY DEF Init, PairReached, Joined, Registers
<1> QED BY <1>1, <1>2, <1>3, <1>4, <1>5, <1>6 DEF PublisherInv

\* The bank after one step of Sync, register by register.
LEMMA SyncWrites ==
    ASSUME TypeOK, SyncStep
    PROVE  /\ bank' \in [Registers -> Nat]
           /\ SyncOrder[syncAt + 1] = "total"
                => /\ bank'["hi"] = total \div Word /\ bank'["lo"] = total % Word
                   /\ \A r \in Registers \ {"hi", "lo"} : bank'[r] = bank[r]
           /\ SyncOrder[syncAt + 1] # "total"
                => /\ bank'[SyncOrder[syncAt + 1]] = ticks
                   /\ \A r \in Registers \ {SyncOrder[syncAt + 1]} : bank'[r] = bank[r]
                   /\ SyncOrder[syncAt + 1] \in Registers \ {"hi", "lo"}
<1> DEFINE r == SyncOrder[syncAt + 1]
<1>1. syncAt + 1 \in 1..5 /\ bank' = Written(r)
  BY OrderLengths DEF SyncStep, TypeOK
<1>2. r # "total" => r \in Registers \ {"hi", "lo"}
  BY <1>1 DEF SyncOrder, Registers
<1>3. total \div Word \in Nat /\ total % Word \in Nat
  BY SplitJoins DEF TypeOK
<1>4. bank \in [Registers -> Nat] /\ ticks \in Nat
  BY PublisherAssumption DEF TypeOK
<1> HIDE DEF r
<1>5. CASE r = "total"
  <2>1. bank' = [bank EXCEPT !["hi"] = total \div Word, !["lo"] = total % Word]
    BY <1>1, <1>5 DEF Written
  <2>2. {"hi", "lo"} \subseteq Registers
    BY DEF Registers
  <2> QED BY <2>1, <2>2, <1>3, <1>4, <1>5 DEF r
<1>6. CASE r # "total"
  <2>1. bank' = [bank EXCEPT ![r] = ticks]
    BY <1>1, <1>6 DEF Written
  <2> QED BY <2>1, <1>2, <1>4, <1>6 DEF r
<1> QED BY <1>5, <1>6

\* One step of Sync keeps the rows in step and never lowers the pair.
LEMMA SyncKeeps ==
    ASSUME PublisherInv, SyncStep
    PROVE  /\ RowsInStep' /\ PairReached'
           /\ Joined(bank["hi"], bank["lo"]) <= Joined(bank'["hi"], bank'["lo"])
<1> DEFINE r == SyncOrder[syncAt + 1]
<1>1. /\ syncAt \in 0..5 /\ syncAt < 5 /\ syncAt' = syncAt + 1
      /\ ticks \in Nat /\ ticks' = ticks /\ total \in Nat /\ total' = total
  BY OrderLengths, PublisherAssumption DEF PublisherInv, TypeOK, SyncStep
<1>2. Joined(bank["hi"], bank["lo"]) \in Nat /\ Joined(bank["hi"], bank["lo"]) <= total
  BY JoinedType DEF PublisherInv, TypeOK, PairReached, Registers
<1>3. RowsInStep'
  <2> SUFFICES ASSUME NEW i \in 1..5, SyncOrder[i] # "total"
               PROVE  bank'[SyncOrder[i]] = IF i <= syncAt' THEN ticks' ELSE ticks' - 1
    BY OrderLengths DEF RowsInStep
  <2>1. SyncOrder[i] \in Registers \ {"hi", "lo"}
    BY DEF SyncOrder, Registers
  <2>2. bank[SyncOrder[i]] = IF i <= syncAt THEN ticks ELSE ticks - 1
    BY OrderLengths DEF PublisherInv, RowsInStep
  <2>3. CASE i = syncAt + 1
    BY <2>3, <1>1, SyncWrites DEF PublisherInv
  <2>4. CASE i # syncAt + 1
    <3>1. SyncOrder[i] # r
      BY <2>4, <1>1 DEF SyncOrder
    <3>2. bank'[SyncOrder[i]] = bank[SyncOrder[i]]
      BY <3>1, <2>1, SyncWrites DEF PublisherInv
    <3> QED BY <3>2, <2>2, <2>4, <1>1
  <2> QED BY <2>3, <2>4
<1>4. CASE r = "total"
  <2>1. Joined(bank'["hi"], bank'["lo"]) = total
    BY <1>4, <1>1, SyncWrites, SplitJoins DEF PublisherInv
  <2> QED BY <2>1, <1>1, <1>2, <1>3 DEF PairReached
<1>5. CASE r # "total"
  <2>1. bank'["hi"] = bank["hi"] /\ bank'["lo"] = bank["lo"]
    BY <1>5, SyncWrites DEF PublisherInv, Registers
  <2> QED BY <2>1, <1>1, <1>2, <1>3 DEF PairReached
<1> QED BY <1>4, <1>5

-----------------------------------------------------------------------------
bankOnly == <<ticks, total, mu, syncAt, bank>>

\* Steps of the receiver, of Close and of the bus leave the bank and the round.
LEMMA InvOthers ==
    ASSUME PublisherInv, UNCHANGED <<bankOnly, oldest, got>>, TypeOK'
    PROVE  PublisherInv'
BY DEF PublisherInv, bankOnly, SyncUnderMu, RowsInStep, RoundNotAhead, LastSynced,
       FreshRound, PairReached

LEMMA TypeStep == ASSUME TypeOK, SyncUnderMu, [Next]_vars PROVE TypeOK'
<1> USE PublisherAssumption, OrderLengths
<1>1. CASE TickStart
  <2>1. PICK g \in Growth : total' = total + g
    BY <1>1 DEF TickStart
  <2>2. ticks' \in 0..MaxTicks /\ total' \in Nat
    BY <2>1, <1>1 DEF TypeOK, TickStart
  <2>3. syncAt' = 0 /\ mu' = "tick" /\ pulse' = FALSE
    BY <1>1 DEF TickStart
  <2>4. UNCHANGED <<bank, oldest, got, bcast, recv, inbox, closed, fd, main>>
    BY <1>1 DEF TickStart, sendVars, closeVars
  <2>5. syncAt' \in 0..Len(SyncOrder) /\ mu' \in {"none", "tick"}
    BY <2>3
  <2>6. pulse' \in BOOLEAN
    BY <2>3, Zenon
  <2> QED BY <2>2, <2>4, <2>5, <2>6 DEF TypeOK
<1>2. CASE SyncStep
  <2>1. bank' \in [Registers -> Nat]
    BY <1>2, SyncWrites
  <2> QED BY <1>2, <2>1 DEF TypeOK, SyncStep, sendVars, closeVars
<1>3. CASE TickEnd
  BY <1>3 DEF TypeOK, TickEnd, sendVars, closeVars
<1>4. CASE RoundStart
  <2>1. LastSynced \in 0..MaxTicks
    BY <1>4 DEF TypeOK, LastSynced, SyncUnderMu
  <2>2. oldest' \in 0..MaxTicks /\ bcast' = "reading"
    BY <1>4, <2>1 DEF RoundStart
  <2>3. got' \in Seq(Nat) /\ Len(got') = 0
    BY <1>4 DEF RoundStart
  <2>4. UNCHANGED <<ticks, total, mu, syncAt, bank, pulse, recv, inbox, closed, fd, main>>
    BY <1>4 DEF RoundStart, bankVars, closeVars
  <2> QED BY <2>2, <2>3, <2>4 DEF TypeOK
<1>5. CASE ReadNext
  <2>1. Len(got) < 6 /\ got \in Seq(Nat) /\ Len(got) + 1 \in 1..6
    <3>1. got \in Seq(Nat) /\ Len(got) < Len(ReadOrder)
      BY <1>5 DEF TypeOK, ReadNext
    <3> QED BY <3>1
  <2>2. ReadOrder[Len(got) + 1] \in Registers
    BY <2>1 DEF ReadOrder, Registers
  <2>3. bank[ReadOrder[Len(got) + 1]] \in Nat
    BY <2>2 DEF TypeOK
  <2>4. got' \in Seq(Nat) /\ Len(got') <= 6
    BY <2>1, <2>3, <1>5 DEF ReadNext
  <2>5. bcast' \in {"sending", "reading"}
    BY <1>5 DEF ReadNext
  <2>6. UNCHANGED <<oldest, ticks, total, mu, syncAt, bank, pulse, recv, inbox, closed,
                    fd, main>>
    BY <1>5 DEF ReadNext, bankVars, closeVars
  <2> QED BY <2>4, <2>5, <2>6 DEF TypeOK
<1>6. CASE RoundEnd \/ BroadcastExit
  BY <1>6 DEF TypeOK, RoundEnd, BroadcastExit, bankVars, closeVars
<1>7. CASE RecvCall \/ RecvFrame \/ RecvError
  <2>1. inbox' \in Seq({"command", "other"})
    <3>1. inbox \in Seq({"command", "other"})
      BY DEF TypeOK
    <3>2. inbox' = inbox \/ (inbox # <<>> /\ inbox' = Tail(inbox))
      BY <1>7 DEF RecvCall, RecvFrame, RecvError
    <3> QED BY <3>1, <3>2
  <2>2. recv' \in {"calling", "blocked", "applying", "done"}
    BY <1>7 DEF RecvCall, RecvFrame, RecvError
  <2>3. UNCHANGED <<oldest, got, bcast, ticks, total, mu, syncAt, bank, pulse, closed,
                    fd, main>>
    BY <1>7 DEF RecvCall, RecvFrame, RecvError, bankVars, sendVars, closeVars
  <2> QED BY <2>1, <2>2, <2>3 DEF TypeOK
<1>8. CASE Apply
  BY <1>8 DEF TypeOK, Apply, sendVars, closeVars
<1>9. CASE FrameArrives
  BY <1>9 DEF TypeOK, FrameArrives, bankVars, sendVars, closeVars
<1>10. CASE CloseChannel \/ CloseBus \/ WaitGroup
  BY <1>10 DEF TypeOK, CloseChannel, CloseBus, WaitGroup, bankVars, sendVars
<1>11. CASE UNCHANGED vars
  BY <1>11 DEF TypeOK, vars, bankVars, sendVars, closeVars
<1> QED
  BY <1>1, <1>2, <1>3, <1>4, <1>5, <1>6, <1>7, <1>8, <1>9, <1>10, <1>11
     DEF Next, Tick, Broadcast, Receive, Close

LEMMA InvNext == ASSUME PublisherInv, [Next]_vars PROVE PublisherInv'
<1>0. TypeOK'
  BY TypeStep DEF PublisherInv
<1>1. CASE TickStart
  <2>1. /\ mu = "none" /\ mu' = "tick" /\ syncAt = 5 /\ syncAt' = 0
        /\ ticks \in Nat /\ ticks' = ticks + 1 /\ bank' = bank
        /\ UNCHANGED <<oldest, got>>
    BY <1>1, OrderLengths DEF TickStart, PublisherInv, TypeOK, SyncUnderMu, sendVars
  <2>2. RowsInStep'
    BY <2>1, OrderLengths DEF PublisherInv, RowsInStep
  <2>3. SyncUnderMu' /\ RoundNotAhead'
    BY <2>1, OrderLengths DEF SyncUnderMu, PublisherInv, RoundNotAhead, LastSynced
  <2>4. FreshRound'
    BY <2>1 DEF PublisherInv, FreshRound, TypeOK
  <2>5. PairReached'
    <3>1. PICK g \in Growth : total' = total + g
      BY <1>1 DEF TickStart
    <3>2. g \in Nat /\ total \in Nat /\ Joined(bank["hi"], bank["lo"]) \in Nat
      BY PublisherAssumption, JoinedType DEF PublisherInv, TypeOK, Registers
    <3> QED BY <2>1, <3>1, <3>2 DEF PublisherInv, PairReached
  <2> QED BY <1>0, <2>2, <2>3, <2>4, <2>5 DEF PublisherInv
<1>2. CASE SyncStep
  <2>1. /\ mu = "tick" /\ syncAt \in 0..4 /\ syncAt' = syncAt + 1
        /\ UNCHANGED <<ticks, mu, oldest, got>>
    BY <1>2, OrderLengths DEF SyncStep, PublisherInv, TypeOK, sendVars
  <2>2. SyncUnderMu' /\ RoundNotAhead' /\ FreshRound'
    BY <2>1 DEF PublisherInv, SyncUnderMu, RoundNotAhead, LastSynced, FreshRound
  <2> QED BY <1>0, <1>2, <2>2, SyncKeeps DEF PublisherInv
<1>3. CASE TickEnd
  <2>1. /\ mu = "tick" /\ mu' = "none" /\ syncAt = 5
        /\ UNCHANGED <<ticks, total, syncAt, bank, oldest, got>>
    BY <1>3, OrderLengths DEF TickEnd, sendVars
  <2>2. RoundNotAhead'
    BY <2>1 DEF PublisherInv, TypeOK, RoundNotAhead, LastSynced
  <2> QED
    BY <1>0, <2>1, <2>2, OrderLengths
       DEF PublisherInv, SyncUnderMu, RowsInStep, FreshRound, PairReached
<1>4. CASE RoundStart
  <2>1. oldest' = LastSynced /\ got' = <<>> /\ UNCHANGED bankOnly
    BY <1>4 DEF RoundStart, bankVars, bankOnly
  <2>2. RoundNotAhead'
    BY <2>1 DEF PublisherInv, TypeOK, RoundNotAhead, LastSynced, bankOnly
  <2>3. FreshRound'
    BY <2>1 DEF FreshRound
  <2> QED
    BY <1>0, <2>1, <2>2, <2>3
       DEF PublisherInv, SyncUnderMu, RowsInStep, PairReached, bankOnly
<1>5. CASE ReadNext
  <2> DEFINE r == ReadOrder[Len(got) + 1]
  <2>1. /\ got \in Seq(Nat) /\ Len(got) + 1 \in 1..6
        /\ got' = Append(got, bank[r]) /\ UNCHANGED <<bankOnly, oldest>>
    <3>1. got \in Seq(Nat) /\ Len(got) \in Nat
      BY DEF PublisherInv, TypeOK
    <3>2. Len(got) < 6
      BY <1>5, OrderLengths DEF ReadNext
    <3>3. got' = Append(got, bank[r]) /\ UNCHANGED <<bankOnly, oldest>>
      BY <1>5 DEF ReadNext, bankVars, bankOnly
    <3> QED BY <3>1, <3>2, <3>3
  <2>2. r \notin {"hi", "lo"} => bank[r] \in oldest..ticks
    <3>1. r \in Registers
      BY <2>1 DEF ReadOrder, Registers
    <3>2. oldest \in Nat /\ ticks \in Nat /\ LastSynced \in Int
      BY DEF PublisherInv, TypeOK, LastSynced
    <3> HIDE DEF r
    <3> QED BY <3>1, <3>2, RowsOfRegisters DEF PublisherInv, RoundNotAhead
  <2> HIDE DEF r
  <2>3. FreshRound'
    <3> SUFFICES ASSUME NEW i \in DOMAIN got', ReadOrder[i] \notin {"hi", "lo"}
                 PROVE  got'[i] \in oldest'..ticks'
      BY DEF FreshRound
    <3>1. oldest' = oldest /\ ticks' = ticks
      BY <2>1 DEF bankOnly
    <3>2. i \in 1..(Len(got) + 1)
      BY <2>1, <2>2
    <3>3. CASE i = Len(got) + 1
      <4>1. got'[i] = bank[r]
        BY <2>1, <3>3
      <4> QED BY <4>1, <2>2, <3>1, <3>3 DEF r
    <3>4. CASE i \in 1..Len(got)
      <4>1. got'[i] = got[i] /\ i \in DOMAIN got
        BY <2>1, <3>4
      <4> QED BY <4>1, <3>1 DEF PublisherInv, FreshRound
    <3> QED BY <2>1, <3>2, <3>3, <3>4
  <2> QED
    BY <1>0, <2>1, <2>3
       DEF PublisherInv, SyncUnderMu, RowsInStep, RoundNotAhead, LastSynced, PairReached,
           bankOnly
<1>6. CASE RoundEnd \/ BroadcastExit
  BY <1>0, <1>6, InvOthers DEF RoundEnd, BroadcastExit, bankVars, bankOnly
<1>7. CASE RecvCall \/ RecvFrame \/ RecvError \/ FrameArrives
  BY <1>0, <1>7, InvOthers
     DEF RecvCall, RecvFrame, RecvError, FrameArrives, bankVars, bankOnly, sendVars
<1>8. CASE Apply
  BY <1>0, <1>8, InvOthers DEF Apply, bankOnly, sendVars
<1>9. CASE CloseChannel \/ CloseBus \/ WaitGroup
  BY <1>0, <1>9, InvOthers DEF CloseChannel, CloseBus, WaitGroup, bankVars, bankOnly, sendVars
<1>10. CASE UNCHANGED vars
  BY <1>0, <1>10, InvOthers DEF vars, bankVars, bankOnly, sendVars
<1> QED
  BY <1>1, <1>2, <1>3, <1>4, <1>5, <1>6, <1>7, <1>8, <1>9, <1>10
     DEF Next, Tick, Broadcast, Receive, Close

LEMMA PublisherInvariant == Spec => []PublisherInv
BY InvInit, InvNext, PTL DEF Spec

-----------------------------------------------------------------------------
\* The variables of a publisher and of the tick beside it keep their types.
THEOREM TypeCorrect == Spec => []TypeOK
<1>1. PublisherInv => TypeOK
  BY DEF PublisherInv
<1> QED BY <1>1, PublisherInvariant, PTL

\* However rounds, ticks, commands and a close are interleaved, a round carries no
\* register older than the last tick that was complete when it began.
THEOREM RoundIsFresh == Spec => []FreshRound
<1>1. PublisherInv => FreshRound
  BY DEF PublisherInv
<1> QED BY <1>1, PublisherInvariant, PTL

\* The two words of the total in the bank always belong to one value, which never
\* falls, for every size of word and every growth.
THEOREM TotalIsMonotone == Spec => TotalNeverFalls
<1>1. PublisherInv /\ [Next]_vars
        => [Joined(bank["hi"], bank["lo"]) <= Joined(bank'["hi"], bank'["lo"])]_vars
  <2> SUFFICES ASSUME PublisherInv, [Next]_vars
               PROVE  Joined(bank["hi"], bank["lo"]) <= Joined(bank'["hi"], bank'["lo"])
    OBVIOUS
  <2>1. CASE SyncStep
    BY <2>1, SyncKeeps
  <2>2. CASE ~SyncStep
    <3>1. bank' = bank
      BY <2>2 DEF Next, vars, Tick, Broadcast, Receive, Close, TickStart, TickEnd,
         RoundStart, ReadNext, RoundEnd, BroadcastExit, RecvCall, RecvFrame, Apply,
         RecvError, FrameArrives, CloseChannel, CloseBus, WaitGroup, bankVars
    <3>2. Joined(bank["hi"], bank["lo"]) \in Nat
      BY JoinedType DEF PublisherInv, TypeOK, Registers
    <3> QED BY <3>1, <3>2
  <2> QED BY <2>1, <2>2
<1> QED BY <1>1, PublisherInvariant, PTL DEF Spec, TotalNeverFalls
=============================================================================
