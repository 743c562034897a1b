------------------------- MODULE ModbusServerProofs -------------------------
(***************************************************************************)
(* Theorems about ModbusServer, for any connections, transports, windows   *)
(* and frames.                                                             *)
(*                                                                         *)
(* AnswersInOrder is about the last queue of a pipeline of four: the       *)
(* frames unread, the frame offered to the handler, the one it handles,    *)
(* and the answers unread.  The invariant InOrder says that on an open     *)
(* connection they hold consecutive frame numbers, in this order and       *)
(* without a gap; a connection that the server has shut keeps only its     *)
(* answers in order, and one that is gone has none.                        *)
(***************************************************************************)
EXTENDS ModbusServer, TLAPS

\* The handler has taken a frame of c and not answered it.
Busy(c) == stage # "idle" /\ request[1] = c

\* The numbers of the last frame that is answered, taken and offered.
Handled(c) == answered[c] + Len(outbox[c])
Taken(c)   == IF Busy(c) THEN Handled(c) + 1 ELSE Handled(c)
LastRead(c) == IF offered[c] = {} THEN Taken(c) ELSE Taken(c) + 1

AnswersLined(c) == \A i \in 1..Len(outbox[c]) : outbox[c][i] = answered[c] + i

FramesLined(c) ==
    /\ Busy(c) => request[2].n = Handled(c) + 1
    /\ \A f \in offered[c] : f.n = Taken(c) + 1
    /\ \A i \in 1..Len(inbox[c]) : inbox[c][i].n = LastRead(c) + i
    /\ sent[c] = LastRead(c) + Len(inbox[c])

OneOffered(c) == \A f, g \in offered[c] : f = g

InOrder(c) ==
    /\ OneOffered(c)
    /\ AnswersLined(c)
    /\ conn[c] = "gone" => outbox[c] = <<>>
    /\ conn[c] = "open" => FramesLined(c)

\* Between two ticks nothing has been read.
SeenInTick == mu = "free" => seen = <<>>

ServerInv ==
    /\ TypeOK
    /\ SeenInTick /\ TickSeesOneBank
    /\ \A c \in Conns : InOrder(c)

-----------------------------------------------------------------------------
\* What is at which place after a queue has grown or shrunk by one.
LEMMA AppendPlaces ==
    ASSUME NEW S, NEW s \in Seq(S), NEW x \in S
    PROVE  /\ Len(s) \in Nat /\ Append(s, x) \in Seq(S)
           /\ Len(Append(s, x)) = Len(s) + 1
           /\ Append(s, x)[Len(s) + 1] = x
           /\ \A i \in 1..Len(s) : Append(s, x)[i] = s[i]
OBVIOUS

LEMMA TailPlaces ==
    ASSUME NEW S, NEW s \in Seq(S), s # <<>>
    PROVE  /\ Len(s) \in Nat \ {0} /\ Tail(s) \in Seq(S)
           /\ Head(s) = s[1] /\ s[1] \in S
           /\ Len(Tail(s)) = Len(s) - 1
           /\ \A i \in 1..Len(Tail(s)) : Tail(s)[i] = s[i + 1]
OBVIOUS

LEMMA FrameFields == \A f \in Frame : f.n \in Nat /\ f.kind \in Kinds
BY DEF Frame

LEMMA StoredType ==
    ASSUME TypeOK, NEW kind \in Kinds PROVE Stored(kind) \in [Settings -> {0, 1}]
<1>1. \A r \in DOMAIN Content(kind) : Content(kind)[r] \in {0, 1}
  BY DEF Content
<1> QED BY <1>1 DEF Stored, TypeOK

\* A connection that a step leaves alone stays in order.
LEMMA Bystander ==
    ASSUME NEW d \in Conns, InOrder(d),
           conn'[d] = conn[d], sent'[d] = sent[d], inbox'[d] = inbox[d],
           outbox'[d] = outbox[d], answered'[d] = answered[d], offered'[d] = offered[d],
           Busy(d)' <=> Busy(d), Busy(d) => request'[2] = request[2]
    PROVE  InOrder(d)'
<1>1. Handled(d)' = Handled(d)
  BY DEF Handled
<1>2. Taken(d)' = Taken(d)
  BY <1>1 DEF Taken
<1>3. LastRead(d)' = LastRead(d)
  BY <1>2 DEF LastRead
<1> QED
  BY <1>1, <1>2, <1>3 DEF InOrder, OneOffered, AnswersLined, FramesLined

\* What the counts are: used in every step that moves a frame along.
LEMMA Counts ==
    ASSUME TypeOK, NEW c \in Conns
    PROVE  /\ answered[c] \in Nat /\ sent[c] \in Nat
           /\ outbox[c] \in Seq(Nat) /\ inbox[c] \in Seq(Frame) /\ offered[c] \subseteq Frame
           /\ Handled(c) \in Nat /\ Taken(c) \in Nat /\ LastRead(c) \in Nat
<1>1. /\ answered[c] \in Nat /\ sent[c] \in Nat
      /\ outbox[c] \in Seq(Nat) /\ inbox[c] \in Seq(Frame) /\ offered[c] \subseteq Frame
  BY DEF TypeOK
<1>2. Handled(c) \in Nat
  BY <1>1 DEF Handled
<1>3. Taken(c) \in Nat
  BY <1>2 DEF Taken
<1>4. LastRead(c) \in Nat
  BY <1>3 DEF LastRead
<1> QED BY <1>1, <1>2, <1>3, <1>4

-----------------------------------------------------------------------------
LEMMA InvInit == Init => ServerInv
<1> SUFFICES ASSUME Init PROVE ServerInv
  OBVIOUS
<1>1. TypeOK
  BY DEF Init, TypeOK
<1>2. SeenInTick /\ TickSeesOneBank
  BY DEF Init, SeenInTick, TickSeesOneBank
<1>3. ASSUME NEW c \in Conns PROVE InOrder(c)
  <2>1. /\ offered[c] = {} /\ outbox[c] = <<>> /\ inbox[c] = <<>>
        /\ answered[c] = 0 /\ sent[c] = 0 /\ ~Busy(c)
    BY DEF Init, Busy
  <2>2. Handled(c) = 0 /\ Taken(c) = 0 /\ LastRead(c) = 0
    BY <2>1 DEF Handled, Taken, LastRead
  <2> QED BY <2>1, <2>2 DEF InOrder, OneOffered, AnswersLined, FramesLined
<1> QED BY <1>1, <1>2, <1>3 DEF ServerInv

-----------------------------------------------------------------------------
LEMMA TypeStep == ASSUME TypeOK, [Next]_vars PROVE TypeOK'
<1> USE ServerAssumption
<1>1. ASSUME NEW c \in Conns, NEW kind \in Sends[c], Send(c, kind) PROVE TypeOK'
  <2>1. kind \in Kinds /\ sent[c] + 1 \in Nat
    BY <1>1, Counts
  <2>2. [n |-> sent[c] + 1, kind |-> kind] \in Frame
    BY <2>1 DEF Frame
  <2>3. Append(inbox[c], [n |-> sent[c] + 1, kind |-> kind]) \in Seq(Frame)
    BY <2>2, Counts
  <2> QED BY <1>1, <2>1, <2>3 DEF TypeOK, Send, simVars
<1>2. ASSUME NEW c \in Conns, Receive(c) PROVE TypeOK'
  <2>1. outbox[c] \in Seq(Nat) /\ outbox[c] # <<>>
    BY <1>2, Counts DEF Receive
  <2>2. Head(outbox[c]) \in Nat /\ Tail(outbox[c]) \in Seq(Nat)
    BY <2>1
  <2> QED BY <1>2, <2>2 DEF TypeOK, Receive, simVars
<1>3. ASSUME NEW c \in Conns, HangUp(c) PROVE TypeOK'
  BY <1>3 DEF TypeOK, HangUp, simVars
<1>4. ASSUME NEW c \in Conns, Shut(c) PROVE TypeOK'
  <2>1. /\ conn' = [conn EXCEPT ![c] = "shut"] /\ inbox' = [inbox EXCEPT ![c] = <<>>]
        /\ UNCHANGED <<up, sent, outbox, answered, offered, stage, request, setting, mu, seen>>
    BY <1>4 DEF Shut, simVars
  <2>2. conn' \in [Conns -> {"open", "gone", "shut"}]
    BY <2>1 DEF TypeOK
  <2>3. inbox' \in [Conns -> Seq(Frame)]
    BY <2>1 DEF TypeOK
  <2> QED BY <2>1, <2>2, <2>3 DEF TypeOK
<1>5. ASSUME NEW c \in Conns, inbox[c] # <<>>, Offer(c) PROVE TypeOK'
  <2>1. Head(inbox[c]) \in Frame /\ Tail(inbox[c]) \in Seq(Frame)
    BY <1>5, Counts
  <2> QED BY <1>5, <2>1 DEF TypeOK, Offer, simVars
<1>6. ASSUME NEW c \in Conns, Take(c) PROVE TypeOK'
  <2>1. PICK f \in offered[c] : request' = <<c, f>>
                               /\ offered' = [offered EXCEPT ![c] = @ \ {f}]
    BY <1>6 DEF Take
  <2>2. f \in Frame
    BY <2>1, Counts
  <2> QED BY <1>6, <2>1, <2>2 DEF TypeOK, Take, netVars, simVars
<1>7. CASE Handle
  <2>1. request[2].kind \in Kinds
    BY <1>7, FrameFields DEF TypeOK, Handle
  <2>2. setting' \in [Settings -> {0, 1}]
    BY <1>7, <2>1, StoredType DEF Handle, TypeOK
  <2> QED BY <1>7, <2>2 DEF TypeOK, Handle, netVars
<1>8. ASSUME NEW c \in Conns, Reply(c) PROVE TypeOK'
  <2>1. request[2].n \in Nat
    BY <1>8, FrameFields DEF TypeOK, Reply
  <2>2. Append(outbox[c], request[2].n) \in Seq(Nat)
    BY <2>1, Counts
  <2>3. outbox' \in [Conns -> Seq(Nat)]
    BY <1>8, <2>2 DEF Reply, Answer, TypeOK
  <2> QED BY <1>8, <2>3 DEF TypeOK, Reply, Answer, simVars
<1>9. CASE TickStart \/ TickEnd
  <2>1. mu' \in {"free", "tick"} /\ seen' = <<>>
    BY <1>9 DEF TickStart, TickEnd
  <2>2. seen' \in Seq({0, 1}) /\ Len(seen') <= 2
    BY <2>1
  <2>3. UNCHANGED <<up, conn, sent, inbox, outbox, answered, offered, stage, request, setting>>
    BY <1>9 DEF TickStart, TickEnd, netVars
  <2> QED BY <2>1, <2>2, <2>3 DEF TypeOK
<1>10. CASE TickRead
  <2>1. seen \in Seq({0, 1}) /\ Len(seen) < 2 /\ setting \in [Settings -> {0, 1}]
    BY <1>10 DEF TypeOK, TickRead
  <2>2. <<"active", "reactive">>[Len(seen) + 1] \in Settings
    <3>1. Len(seen) + 1 \in 1..2
      BY <2>1
    <3> QED BY <3>1 DEF Settings
  <2>3. seen' \in Seq({0, 1}) /\ Len(seen') <= 2
    BY <1>10, <2>1, <2>2 DEF TickRead
  <2> QED BY <1>10, <2>3 DEF TypeOK, TickRead, netVars
<1>11. CASE UNCHANGED vars
  BY <1>11 DEF TypeOK, vars, netVars, simVars
<1>12. CASE Die
  <2>1. up' = FALSE
    BY <1>12 DEF Die
  <2> QED BY <1>12, <2>1 DEF TypeOK, Die, netVars, simVars
<1>13. ASSUME NEW c \in Conns, ReadFrame(c) PROVE TypeOK'
  BY <1>4, <1>5, <1>12, <1>13 DEF ReadFrame, Treat
<1> QED
  BY <1>1, <1>2, <1>3, <1>4, <1>6, <1>7, <1>8, <1>9, <1>10, <1>11, <1>13
     DEF Next, ReadEnd, Ended

\* The tick and the bank.
LEMMA BankStep ==
    ASSUME TypeOK, SeenInTick, TickSeesOneBank, [Next]_vars
    PROVE  SeenInTick' /\ TickSeesOneBank'
<1>1. CASE TickStart \/ TickEnd
  BY <1>1 DEF TickStart, TickEnd, SeenInTick, TickSeesOneBank
<1>2. CASE TickRead
  <2>1. /\ mu = "tick" /\ mu' = mu /\ setting' = setting
        /\ seen \in Seq({0, 1}) /\ Len(seen) < 2
        /\ seen' = Append(seen, setting[<<"active", "reactive">>[Len(seen) + 1]])
    BY <1>2 DEF TickRead, TypeOK
  <2>2. \A i \in 1..Len(seen') : seen'[i] = setting[<<"active", "reactive">>[i]]
    <3> SUFFICES ASSUME NEW i \in 1..(Len(seen) + 1)
                 PROVE  seen'[i] = setting[<<"active", "reactive">>[i]]
      BY <2>1
    <3>1. CASE i = Len(seen) + 1
      BY <2>1, <3>1
    <3>2. CASE i \in 1..Len(seen)
      BY <2>1, <3>2 DEF TickSeesOneBank
    <3> QED BY <2>1, <3>1, <3>2
  <2> QED BY <2>1, <2>2 DEF SeenInTick, TickSeesOneBank
<1>3. CASE Handle
  <2>1. mu' = mu /\ seen' = seen /\ (mu = "free" \/ setting' = setting)
    BY <1>3 DEF Handle
  <2> QED BY <2>1 DEF SeenInTick, TickSeesOneBank
<1>4. CASE UNCHANGED simVars
  BY <1>4 DEF simVars, SeenInTick, TickSeesOneBank
<1> QED
  BY <1>1, <1>2, <1>3, <1>4
     DEF Next, vars, Send, Receive, HangUp, ReadFrame, Treat, Die, ReadEnd, Offer, Shut,
         Take, Reply, Answer, Ended

-----------------------------------------------------------------------------
(***************************************************************************)
(* One lemma for each step that moves a frame along its pipeline.          *)
(***************************************************************************)
LEMMA SendKeeps ==
    ASSUME ServerInv, NEW c \in Conns, NEW kind \in Sends[c], Send(c, kind), NEW d \in Conns
    PROVE  InOrder(d)'
<1> USE DEF ServerInv
<1>1. /\ conn[c] = "open" /\ sent'[c] = sent[c] + 1
      /\ inbox'[c] = Append(inbox[c], [n |-> sent[c] + 1, kind |-> kind])
      /\ d # c => sent'[d] = sent[d] /\ inbox'[d] = inbox[d]
      /\ UNCHANGED <<conn, outbox, answered, offered, stage, request>>
  BY DEF Send, TypeOK
<1>2. Busy(d)' <=> Busy(d)
  BY <1>1 DEF Busy
<1>3. CASE d # c
  BY <1>1, <1>2, <1>3, Bystander
<1>4. CASE d = c
  <2>1. Handled(c)' = Handled(c)
    BY <1>1 DEF Handled
  <2>2. Taken(c)' = Taken(c) /\ LastRead(c)' = LastRead(c)
    BY <1>1, <1>2, <1>4, <2>1 DEF Taken, LastRead
  <2>3. FramesLined(c) /\ OneOffered(c) /\ AnswersLined(c)
    BY <1>1 DEF InOrder
  <2> DEFINE f == [n |-> sent[c] + 1, kind |-> kind]
             k == Len(inbox[c])
  <2>4. inbox[c] \in Seq(Frame) /\ LastRead(c) \in Nat /\ sent[c] \in Nat
    BY Counts
  <2>5. f \in Frame /\ f.n = sent[c] + 1
    BY <2>4, ServerAssumption DEF Frame
  <2>6. inbox'[c] = Append(inbox[c], f)
    BY <1>1
  <2> HIDE DEF f
  <2>7. /\ k \in Nat /\ Len(inbox'[c]) = k + 1 /\ inbox'[c][k + 1] = f
        /\ \A i \in 1..k : inbox'[c][i] = inbox[c][i]
    BY <2>4, <2>5, <2>6, AppendPlaces
  <2>8. sent[c] = LastRead(c) + k /\ \A i \in 1..k : inbox[c][i].n = LastRead(c) + i
    BY <2>3 DEF FramesLined
  <2> HIDE DEF k
  <2>9. sent'[c] = LastRead(c) + Len(inbox'[c])
    <3>1. sent'[c] = sent[c] + 1
      BY <1>1
    <3>2. k \in Nat /\ LastRead(c) \in Nat /\ Len(inbox'[c]) = k + 1
      BY <2>4, <2>7
    <3>3. sent[c] = LastRead(c) + k
      BY <2>8
    <3> QED BY <3>1, <3>2, <3>3
  <2>10. ASSUME NEW i \in 1..Len(inbox'[c]) PROVE inbox'[c][i].n = LastRead(c) + i
    <3>1. CASE i = k + 1
      BY <2>4, <2>5, <2>7, <2>8, <3>1
    <3>2. CASE i \in 1..k
      BY <2>7, <2>8, <3>2
    <3> QED BY <2>7, <3>1, <3>2
  <2>11. Busy(c)' => request'[2].n = Handled(c)' + 1
    BY <1>1, <1>2, <1>4, <2>1, <2>3 DEF FramesLined
  <2>12. \A g \in offered'[c] : g.n = Taken(c)' + 1
    BY <1>1, <2>2, <2>3 DEF FramesLined
  <2>13. FramesLined(c)'
    BY <2>2, <2>9, <2>10, <2>11, <2>12 DEF FramesLined
  <2> QED BY <1>1, <1>4, <2>3, <2>13 DEF InOrder, OneOffered, AnswersLined
<1> QED BY <1>3, <1>4

LEMMA ReceiveKeeps ==
    ASSUME ServerInv, NEW c \in Conns, Receive(c), NEW d \in Conns
    PROVE  InOrder(d)'
<1> USE DEF ServerInv
<1>1. /\ conn[c] # "gone" /\ outbox[c] # <<>>
      /\ answered'[c] = Head(outbox[c]) /\ outbox'[c] = Tail(outbox[c])
      /\ d # c => answered'[d] = answered[d] /\ outbox'[d] = outbox[d]
      /\ UNCHANGED <<conn, sent, inbox, offered, stage, request>>
  BY DEF Receive, TypeOK
<1>2. Busy(d)' <=> Busy(d)
  BY <1>1 DEF Busy
<1>3. CASE d # c
  BY <1>1, <1>2, <1>3, Bystander
<1>4. CASE d = c
  <2>1. AnswersLined(c) /\ OneOffered(c) /\ (conn[c] = "open" => FramesLined(c))
    BY <1>1 DEF InOrder
  <2> DEFINE k == Len(outbox[c])
  <2>2. outbox[c] \in Seq(Nat) /\ answered[c] \in Nat
    BY Counts
  <2>3. /\ k \in Nat \ {0} /\ answered'[c] = outbox[c][1]
        /\ Len(outbox'[c]) = k - 1
        /\ \A i \in 1..Len(outbox'[c]) : outbox'[c][i] = outbox[c][i + 1]
    BY <1>1, <2>2, TailPlaces
  <2>30. \A i \in 1..k : outbox[c][i] = answered[c] + i
    BY <2>1 DEF AnswersLined
  <2>4. answered'[c] = answered[c] + 1 /\ AnswersLined(c)'
    <3> HIDE DEF k
    <3>1. answered'[c] = answered[c] + 1
      BY <2>3, <2>30
    <3>2. ASSUME NEW i \in 1..Len(outbox'[c]) PROVE outbox'[c][i] = answered'[c] + i
      <4>1. i \in Int /\ i + 1 \in 1..k
        BY <2>3
      <4>2. outbox'[c][i] = answered[c] + (i + 1)
        BY <2>3, <2>30, <4>1
      <4>3. answered[c] + (i + 1) = (answered[c] + 1) + i
        <5>1. answered[c] \in Int
          BY <2>2
        <5> QED BY <4>1, <5>1
      <4> QED BY <3>1, <4>2, <4>3
    <3> QED BY <3>1, <3>2 DEF AnswersLined
  <2>5. Handled(c)' = Handled(c)
    BY <2>2, <2>3, <2>4 DEF Handled
  <2>6. Taken(c)' = Taken(c) /\ LastRead(c)' = LastRead(c)
    BY <1>1, <1>2, <1>4, <2>5 DEF Taken, LastRead
  <2>7. FramesLined(c) => FramesLined(c)'
    BY <1>1, <1>2, <1>4, <2>5, <2>6 DEF FramesLined
  <2> QED BY <1>1, <1>4, <2>1, <2>4, <2>7 DEF InOrder, OneOffered
<1> QED BY <1>3, <1>4

\* A connection that is no longer open keeps no frames in line.
LEMMA ClosedKeeps ==
    ASSUME ServerInv, NEW c \in Conns, HangUp(c) \/ Shut(c), NEW d \in Conns
    PROVE  InOrder(d)'
<1> USE DEF ServerInv
<1>1. /\ offered' = offered /\ stage' = stage /\ request' = request
      /\ conn'[c] \in {"gone", "shut"}
      /\ answered' = answered
      /\ conn'[c] = "shut" => outbox'[c] = outbox[c]
      /\ conn'[c] = "gone" => outbox'[c] = <<>>
      /\ d # c => /\ conn'[d] = conn[d] /\ sent'[d] = sent[d] /\ inbox'[d] = inbox[d]
                  /\ outbox'[d] = outbox[d]
  BY DEF HangUp, Shut, TypeOK
<1>2. Busy(d)' <=> Busy(d)
  BY <1>1 DEF Busy
<1>3. CASE d # c
  BY <1>1, <1>2, <1>3, Bystander
<1>4. CASE d = c
  <2>1. AnswersLined(c)'
    BY <1>1 DEF InOrder, AnswersLined
  <2> QED BY <1>1, <1>4, <2>1 DEF InOrder, OneOffered, AnswersLined
<1> QED BY <1>3, <1>4

LEMMA OfferKeeps ==
    ASSUME ServerInv, NEW c \in Conns, inbox[c] # <<>>, offered[c] = {}, Offer(c),
           NEW d \in Conns
    PROVE  InOrder(d)'
<1> USE DEF ServerInv
<1>1. /\ inbox'[c] = Tail(inbox[c]) /\ offered'[c] = {Head(inbox[c])}
      /\ d # c => inbox'[d] = inbox[d] /\ offered'[d] = offered[d]
      /\ UNCHANGED <<conn, sent, outbox, answered, stage, request>>
  BY DEF Offer, TypeOK
<1>2. Busy(d)' <=> Busy(d)
  BY <1>1 DEF Busy
<1>3. CASE d # c
  BY <1>1, <1>2, <1>3, Bystander
<1>4. CASE d = c
  <2>1. Handled(c)' = Handled(c)
    BY <1>1 DEF Handled
  <2>2. Taken(c)' = Taken(c) /\ LastRead(c) = Taken(c)
    BY <1>1, <1>2, <1>4, <2>1 DEF Taken, LastRead
  <2>3. LastRead(c)' = LastRead(c) + 1
    BY <1>1, <2>2 DEF LastRead
  <2>4. OneOffered(c)' /\ AnswersLined(c)'
    BY <1>1 DEF OneOffered, InOrder, AnswersLined
  <2>5. ASSUME conn[c] = "open" PROVE FramesLined(c)'
    <3>1. FramesLined(c)
      BY <2>5 DEF InOrder
    <3>9. inbox[c] \in Seq(Frame) /\ LastRead(c) \in Nat /\ sent[c] \in Nat
      BY Counts
    <3>3. /\ Head(inbox[c]) = inbox[c][1] /\ Len(inbox'[c]) = Len(inbox[c]) - 1
          /\ \A i \in 1..Len(inbox'[c]) : inbox'[c][i] = inbox[c][i + 1]
      BY <1>1, <3>9, TailPlaces
    <3>2. inbox[c] \in Seq(Frame) /\ Len(inbox[c]) \in Nat \ {0} /\ LastRead(c) \in Nat
          /\ sent[c] \in Nat
      BY <3>9, TailPlaces
    <3>4. \A f \in offered'[c] : f.n = Taken(c) + 1
      BY <1>1, <2>2, <3>1, <3>2, <3>3 DEF FramesLined
    <3>5. \A i \in 1..Len(inbox'[c]) : inbox'[c][i].n = LastRead(c)' + i
      <4> SUFFICES ASSUME NEW i \in 1..Len(inbox'[c])
                   PROVE  inbox'[c][i].n = LastRead(c) + 1 + i
        BY <2>3
      <4>1. i \in Int /\ i + 1 \in 1..Len(inbox[c])
        BY <3>2, <3>3
      <4>2. inbox[c][i + 1].n = LastRead(c) + (i + 1)
        BY <3>1, <4>1 DEF FramesLined
      <4>3. LastRead(c) + (i + 1) = LastRead(c) + 1 + i
        <5>1. LastRead(c) \in Int
          BY <3>2
        <5> QED BY <4>1, <5>1
      <4> QED BY <3>3, <4>2, <4>3
    <3>6. sent'[c] = LastRead(c)' + Len(inbox'[c])
      BY <1>1, <2>3, <3>1, <3>2, <3>3 DEF FramesLined
    <3>7. Busy(c)' => request'[2].n = Handled(c)' + 1
      BY <1>1, <1>2, <1>4, <2>1, <3>1 DEF FramesLined
    <3> QED BY <2>2, <3>4, <3>5, <3>6, <3>7 DEF FramesLined
  <2> QED BY <1>1, <1>4, <2>4, <2>5 DEF InOrder
<1> QED BY <1>3, <1>4

LEMMA TakeKeeps ==
    ASSUME ServerInv, NEW c \in Conns, Take(c), NEW d \in Conns
    PROVE  InOrder(d)'
<1> USE DEF ServerInv
<1>1. PICK f \in offered[c] : request' = <<c, f>> /\ offered' = [offered EXCEPT ![c] = @ \ {f}]
  BY DEF Take
<1>2. /\ stage = "idle" /\ stage' = "run"
      /\ d # c => offered'[d] = offered[d]
      /\ offered'[c] = offered[c] \ {f}
      /\ UNCHANGED <<conn, sent, inbox, outbox, answered>>
  BY <1>1 DEF Take, netVars, TypeOK
<1>3. CASE d # c
  <2>1. ~Busy(d) /\ ~Busy(d)'
    BY <1>1, <1>2, <1>3 DEF Busy
  <2> QED BY <1>2, <1>3, <2>1, Bystander
<1>4. CASE d = c
  <2>1. ~Busy(c) /\ Busy(c)' /\ request'[2] = f
    BY <1>1, <1>2 DEF Busy
  <2>2. OneOffered(c) /\ offered'[c] = {}
    BY <1>1, <1>2 DEF InOrder, OneOffered
  <2>3. Handled(c)' = Handled(c) /\ Handled(c) \in Nat
    BY <1>2, Counts DEF Handled
  <2>4. Taken(c) = Handled(c) /\ Taken(c)' = Handled(c) + 1
    BY <2>1, <2>3 DEF Taken
  <2>5. LastRead(c) = Handled(c) + 1 /\ LastRead(c)' = Handled(c) + 1
    BY <1>1, <2>2, <2>4 DEF LastRead
  <2>6. conn[c] = "open" => FramesLined(c)'
    <3> SUFFICES ASSUME conn[c] = "open" PROVE FramesLined(c)'
      OBVIOUS
    <3>1. FramesLined(c)
      BY DEF InOrder
    <3>2. f.n = Handled(c) + 1
      BY <1>1, <2>4, <3>1 DEF FramesLined
    <3> QED BY <1>2, <2>1, <2>2, <2>3, <2>4, <2>5, <3>1, <3>2 DEF FramesLined
  <2> QED BY <1>2, <1>4, <2>2, <2>6 DEF InOrder, OneOffered, AnswersLined
<1> QED BY <1>3, <1>4

LEMMA HandleKeeps ==
    ASSUME ServerInv, Handle, NEW d \in Conns PROVE InOrder(d)'
<1>1. /\ stage = "run" /\ stage' = "reply"
      /\ UNCHANGED <<conn, sent, inbox, outbox, answered, offered, request>>
  BY DEF Handle, netVars
<1>2. Busy(d)' <=> Busy(d)
  BY <1>1 DEF Busy
<1> QED BY <1>1, <1>2, Bystander DEF ServerInv

LEMMA ReplyKeeps ==
    ASSUME ServerInv, NEW c \in Conns, Reply(c), NEW d \in Conns
    PROVE  InOrder(d)'
<1> USE DEF ServerInv
<1>1. /\ stage = "reply" /\ stage' = "idle" /\ c = request[1]
      /\ d # c => outbox'[d] = outbox[d]
      /\ \/ conn[c] = "open" /\ outbox'[c] = Append(outbox[c], request[2].n)
         \/ conn[c] # "open" /\ outbox'[c] = outbox[c]
      /\ UNCHANGED <<conn, sent, inbox, answered, offered>>
  BY DEF Reply, Answer, TypeOK
<1>2. ~Busy(d)'
  BY <1>1 DEF Busy
<1>3. CASE d # c
  <2>1. ~Busy(d)
    BY <1>1, <1>3 DEF Busy
  <2> QED BY <1>1, <1>2, <1>3, <2>1, Bystander
<1>4. CASE d = c /\ conn[c] # "open"
  BY <1>1, <1>4 DEF InOrder, OneOffered, AnswersLined
<1>5. CASE d = c /\ conn[c] = "open"
  <2>1. Busy(c) /\ FramesLined(c) /\ OneOffered(c) /\ AnswersLined(c)
    BY <1>1, <1>5 DEF Busy, InOrder
  <2>2. request[2].n = answered[c] + Len(outbox[c]) + 1
    BY <2>1 DEF FramesLined, Handled
  <2>3. /\ outbox[c] \in Seq(Nat) /\ answered[c] \in Nat
        /\ outbox'[c] = Append(outbox[c], answered[c] + Len(outbox[c]) + 1)
    BY <1>1, <1>5, <2>2, Counts
  <2>4. /\ Len(outbox[c]) \in Nat /\ Len(outbox'[c]) = Len(outbox[c]) + 1
        /\ outbox'[c][Len(outbox[c]) + 1] = answered[c] + Len(outbox[c]) + 1
        /\ \A i \in 1..Len(outbox[c]) : outbox'[c][i] = outbox[c][i]
    BY <2>3
  <2>5. answered[c] \in Nat
    BY Counts
  <2>6. AnswersLined(c)'
    <3>1. ASSUME NEW i \in 1..(Len(outbox[c]) + 1) PROVE outbox'[c][i] = answered[c] + i
      <4>1. CASE i = Len(outbox[c]) + 1
        BY <2>4, <2>5, <4>1
      <4>2. CASE i \in 1..Len(outbox[c])
        BY <2>1, <2>4, <4>2 DEF AnswersLined
      <4> QED BY <2>4, <4>1, <4>2
    <3> QED BY <1>1, <2>4, <3>1 DEF AnswersLined
  <2>7. Handled(c)' = Handled(c) + 1
    <3>1. answered' = answered
      BY <1>1
    <3>2. answered[c] + (Len(outbox[c]) + 1) = (answered[c] + Len(outbox[c])) + 1
      BY <2>4, <2>5
    <3> QED BY <2>4, <3>1, <3>2 DEF Handled
  <2>8. Taken(c)' = Taken(c) /\ LastRead(c)' = LastRead(c)
    BY <1>1, <1>2, <1>5, <2>1, <2>7 DEF Taken, LastRead
  <2>9. FramesLined(c)'
    BY <1>1, <1>2, <1>5, <2>1, <2>8 DEF FramesLined
  <2> QED BY <1>1, <1>5, <2>1, <2>6, <2>9 DEF InOrder, OneOffered
<1> QED BY <1>3, <1>4, <1>5

LEMMA InvNext == ASSUME ServerInv, [Next]_vars PROVE ServerInv'
<1>1. TypeOK' /\ SeenInTick' /\ TickSeesOneBank'
  BY TypeStep, BankStep DEF ServerInv
<1>2. ASSUME NEW d \in Conns PROVE InOrder(d)'
  <2>1. CASE TickStart \/ TickRead \/ TickEnd \/ Die \/ UNCHANGED vars
    <3>1. UNCHANGED <<netVars, offered, stage, request>>
      BY <2>1 DEF TickStart, TickRead, TickEnd, Die, vars
    <3>2. Busy(d)' <=> Busy(d)
      BY <3>1 DEF Busy
    <3> QED BY <3>1, <3>2, Bystander DEF ServerInv, netVars
  <2>2. ASSUME NEW c \in Conns, ReadFrame(c) PROVE InOrder(d)'
    BY <2>1, <2>2, OfferKeeps, ClosedKeeps DEF ReadFrame, Treat
  <2> QED
    BY <2>1, <2>2, SendKeeps, ReceiveKeeps, ClosedKeeps, TakeKeeps, HandleKeeps, ReplyKeeps
       DEF Next, ReadEnd, Ended
<1> QED BY <1>1, <1>2 DEF ServerInv

LEMMA ServerInvariant == Spec => []ServerInv
BY InvInit, InvNext, PTL DEF Spec

-----------------------------------------------------------------------------
\* The variables of the server keep their types.
THEOREM TypeCorrect == Spec => []TypeOK
<1>1. ServerInv => TypeOK
  BY DEF ServerInv
<1> QED BY <1>1, ServerInvariant, PTL

\* No client write, of one register or of several, lands inside a tick.
THEOREM TickReadsOneBank == Spec => []TickSeesOneBank
<1>1. ServerInv => TickSeesOneBank
  BY DEF ServerInv
<1> QED BY <1>1, ServerInvariant, PTL

\* Whatever the clients pipeline and whenever they hang up, each of them reads the
\* answers to its frames one after the other, none missing and none twice.
THEOREM AnswersKeepOrder == Spec => AnswersInOrder
<1>1. ServerInv /\ [Next]_vars
        => [\A c \in Conns : answered'[c] \in {answered[c], answered[c] + 1}]_vars
  <2> SUFFICES ASSUME ServerInv, [Next]_vars, NEW d \in Conns
               PROVE  answered'[d] \in {answered[d], answered[d] + 1}
    OBVIOUS
  <2>1. ASSUME NEW c \in Conns, Receive(c) PROVE answered'[d] \in {answered[d], answered[d] + 1}
    <3>1. outbox[c] # <<>> /\ answered' = [answered EXCEPT ![c] = Head(outbox[c])]
      BY <2>1 DEF Receive
    <3>2. outbox[c] \in Seq(Nat) /\ AnswersLined(c) /\ answered \in [Conns -> Nat]
      BY Counts DEF ServerInv, InOrder, TypeOK
    <3>3. Head(outbox[c]) = answered[c] + 1
      <4>1. Len(outbox[c]) \in Nat \ {0} /\ Head(outbox[c]) = outbox[c][1]
        BY <3>1, <3>2, TailPlaces
      <4> QED BY <3>2, <4>1 DEF AnswersLined
    <3> QED BY <3>1, <3>2, <3>3
  <2>2. CASE UNCHANGED answered
    BY <2>2
  <2> QED
    BY <2>1, <2>2
       DEF Next, vars, netVars, Send, HangUp, ReadFrame, Treat, Die, ReadEnd, Offer, Shut,
           Take, Handle, Reply, Answer, TickStart, TickRead, TickEnd, Ended
<1> QED BY <1>1, ServerInvariant, PTL DEF Spec, AnswersInOrder

-----------------------------------------------------------------------------
(***************************************************************************)
(* What ends the process.                                                  *)
(***************************************************************************)
Ordinary == [n : Nat, kind : Kinds \ MBAPOnly]

\* Every other length passes through 16 bits unchanged, but for that of a frame
\* which is too long, and its packet ends behind the header.
LEMMA OrdinaryIsSafe == ASSUME NEW t, NEW kind \in Kinds \ MBAPOnly PROVE ~Panics(t, kind)
<1>1. MBAPLength[kind] \in {6, 11, 300} /\ kind # "short"
  BY DEF Kinds, MBAPOnly, MBAPLength
<1>2. \A n \in {6, 11, 300} : U16(n - 1) = n - 1 /\ U16((n - 1) + 7) = n + 6
  BY DEF U16
<1>3. PacketEnd(kind) >= 7
  BY <1>1, <1>2 DEF PacketEnd, BytesNeeded
<1> QED BY <1>1, <1>3 DEF Panics, PacketEnd, BytesNeeded, U16

UpInv == up /\ inbox \in [Conns -> Seq(Ordinary)]

LEMMA UpStep ==
    ASSUME TypeOK, UpInv, [Next]_vars, \A c \in Conns : Sends[c] \cap MBAPOnly = {}
    PROVE  UpInv'
<1> USE DEF UpInv
<1>1. ASSUME NEW c \in Conns, NEW kind \in Sends[c], Send(c, kind) PROVE UpInv'
  <2>1. kind \in Kinds \ MBAPOnly /\ sent[c] + 1 \in Nat
    BY ServerAssumption, Counts
  <2>2. [n |-> sent[c] + 1, kind |-> kind] \in Ordinary
    BY <2>1 DEF Ordinary
  <2>3. Append(inbox[c], [n |-> sent[c] + 1, kind |-> kind]) \in Seq(Ordinary)
    BY <2>2
  <2> QED BY <1>1, <2>3 DEF Send
<1>2. ASSUME NEW c \in Conns, Shut(c) PROVE UpInv'
  BY <1>2 DEF Shut
<1>3. ASSUME NEW c \in Conns, ReadFrame(c) PROVE UpInv'
  <2>1. inbox[c] \in Seq(Ordinary) /\ inbox[c] # <<>>
    BY <1>3 DEF ReadFrame
  <2>2. Head(inbox[c]) \in Ordinary /\ Tail(inbox[c]) \in Seq(Ordinary)
    BY <2>1
  <2>3. Head(inbox[c]).kind \in Kinds \ MBAPOnly
    BY <2>2 DEF Ordinary
  <2>4. ~Panics(Transport[c], Head(inbox[c]).kind)
    BY <2>3, OrdinaryIsSafe
  <2>5. CASE Offer(c)
    BY <2>2, <2>5 DEF Offer
  <2> QED BY <1>2, <1>3, <2>4, <2>5 DEF ReadFrame, Treat
<1>4. CASE UNCHANGED <<up, inbox>>
  BY <1>4
<1> QED
  BY <1>1, <1>2, <1>3, <1>4
     DEF Next, vars, netVars, Receive, HangUp, ReadEnd, Take, Reply, Answer, Handle,
         TickStart, TickRead, TickEnd, Ended

\* Nothing that clients send ends the process but a frame of the two kinds at which
\* accept and checkDataLength panic, in whatever order frames of all the other kinds
\* come and whatever connections do.
THEOREM OrdinaryFramesKeepItUp ==
    ASSUME \A c \in Conns : Sends[c] \cap MBAPOnly = {}
    PROVE  Spec => []up
<1>1. Init => UpInv
  BY DEF Init, UpInv
<1>2. TypeOK /\ UpInv /\ [Next]_vars => UpInv'
  BY UpStep
<1>3. UpInv => up
  BY DEF UpInv
<1> QED BY <1>1, <1>2, <1>3, TypeCorrect, PTL DEF Spec
=============================================================================
